---- MODULE Spec2Model ----
(***************************************************************************)
(* Model of the anomaly-detection stage of analitica_cumplimiento:         *)
(* PipelineAnomalias (pipelines/anomalias.py) driven by                    *)
(* PipelineOrchestration.run_pipeline_anomaly_detection (orchestration.py).*)
(*                                                                         *)
(* A DataFrame is a record                                                 *)
(*   [n |-> row count, columns |-> sequence of column names,               *)
(*    dtypes |-> [name -> dtype], data |-> [name -> sequence of n values]] *)
(* with the default positional index 1..n.  A column name is a pair        *)
(* <<prefix, base>>: <<"", "MONTO">> is MONTO, <<"z_score_", "MONTO">> is  *)
(* z_score_MONTO and <<"anomaly_", "0.05">> is anomaly_0.05.               *)
(*                                                                         *)
(* Numbers are exact rationals <<num, den>> with den > 0 in lowest terms;  *)
(* <<0, 0>> is NaN.  A z-score is [s, n, d], the real s * sqrt(n / d),     *)
(* d = 0 being NaN.  A missing categorical value is the string "NaN".      *)
(***************************************************************************)
EXTENDS Integers, Sequences, FiniteSets, TLC

VARIABLES
    pc,                       \* position in run_pipeline_anomaly_detection
    parameters,               \* parameters['parameters_anomalias']
    storage,                  \* object store: path -> <<>> (absent) or <<table>>
    data_trx_feature_pd,      \* locals of run_pipeline_anomaly_detection ...
    data_filter_anomalia_pd,
    data_anomalia_scaled_pd,
    data_score_z_pd,          \* ... df_con_anomalias_pd is the same object as data_score_z_pd
    df_con_anomalias_pd,
    transacciones_marcadas_pd,
    resumen_anomalias,
    raised,                   \* the exception that ended the run, "" when none
    forest,                   \* the forests fitted so far: {[seed, X, score_of]}
    rerun_score_z_pd,         \* locals of a second run of the detector on the same input
    rerun_con_anomalias_pd,
    argv,                     \* sys.argv[1:]
    started,                  \* the stages main has called, in call order
    returned,                 \* the stages that have returned to main, in order
    data_clientes_pd,         \* locals of run_pipeline_raw: <<>> (unset) or <<value>> ...
    data_productos_pd,
    data_trx_pd,
    df_final,                 \* ... the value merge_dataframes_pd returned
    data_customers_raw_pd,
    data_trx_raw_pd

vars == <<pc, parameters, storage, data_trx_feature_pd,
          data_filter_anomalia_pd, data_anomalia_scaled_pd, data_score_z_pd,
          df_con_anomalias_pd, transacciones_marcadas_pd, resumen_anomalias, raised,
          forest, rerun_score_z_pd, rerun_con_anomalias_pd,
          argv, started, returned, data_clientes_pd, data_productos_pd, data_trx_pd,
          df_final, data_customers_raw_pd, data_trx_raw_pd>>

\* what only the detector touches
detector_vars == <<forest, rerun_score_z_pd, rerun_con_anomalias_pd>>

\* what only main and run_pipeline_raw touch
main_vars == <<argv, started, returned, data_clientes_pd, data_productos_pd, data_trx_pd,
               df_final, data_customers_raw_pd, data_trx_raw_pd>>

----------------------------------------------------------------------------
(* Bounds of the model. *)

MaxRows == 3

----------------------------------------------------------------------------
(* Exact arithmetic. *)

Abs(x) == IF x < 0 THEN -x ELSE x

Sign(x) == IF x < 0 THEN -1 ELSE IF x > 0 THEN 1 ELSE 0

RECURSIVE GCD(_, _)
GCD(a, b) == IF b = 0 THEN a ELSE GCD(b, a % b)

NaN == <<0, 0>>

IsNaN(x) == x[2] = 0

\* the rational num/den (den # 0) in lowest terms with a positive denominator
Rat(num, den) ==
    LET g == GCD(Abs(num), Abs(den))
    IN  <<(Sign(den) * num) \div g, Abs(den) \div g>>

Int2Rat(i) == <<i, 1>>

\* float subtraction and division: NaN propagates, 0/0 is NaN
RSub(x, y) ==
    IF IsNaN(x) \/ IsNaN(y) THEN NaN
    ELSE Rat(x[1] * y[2] - y[1] * x[2], x[2] * y[2])

RDiv(x, y) ==
    IF IsNaN(x) \/ IsNaN(y) \/ y[1] = 0 THEN NaN
    ELSE Rat(x[1] * y[2], x[2] * y[1])

RLeq(x, y) == x[1] * y[2] <= y[1] * x[2]

RECURSIVE SumSeq(_)
SumSeq(s) ==
    IF s = <<>> THEN 0
    ELSE IF Len(s) = 1 THEN s[1]
    ELSE LET h == Len(s) \div 2
         IN  SumSeq(SubSeq(s, 1, h)) + SumSeq(SubSeq(s, h + 1, Len(s)))

RECURSIVE Lcm(_)
Lcm(s) ==
    IF s = <<>> THEN 1
    ELSE IF Len(s) = 1 THEN s[1]
    ELSE LET h == Len(s) \div 2
             l == Lcm(SubSeq(s, 1, h))
             r == Lcm(SubSeq(s, h + 1, Len(s)))
         IN  (l * r) \div GCD(l, r)

Range(s) == {s[i] : i \in 1..Len(s)}

----------------------------------------------------------------------------
(* DataFrames. *)

Col(base) == <<"", base>>

ZScoreName(col) == <<"z_score_", col[2]>>

AnomalyName(contamination) == <<"anomaly_", contamination>>

NA == "NaN"

HasColumn(df, col) == col \in Range(df.columns)

\* df[cols] for a list of names all present in df
Project(df, cols) ==
    [n |-> df.n, columns |-> cols,
     dtypes |-> [c \in Range(cols) |-> df.dtypes[c]],
     data |-> [c \in Range(cols) |-> df.data[c]]]

\* pd.concat([a, b], axis=1) of frames over the same index with disjoint column names
ConcatColumns(a, b) ==
    [n |-> a.n, columns |-> a.columns \o b.columns,
     dtypes |-> [c \in Range(a.columns) \cup Range(b.columns) |->
                    IF c \in Range(a.columns) THEN a.dtypes[c] ELSE b.dtypes[c]],
     data |-> [c \in Range(a.columns) \cup Range(b.columns) |->
                    IF c \in Range(a.columns) THEN a.data[c] ELSE b.data[c]]]

\* df[col] = values: replaces the column in place or appends it as the last one
SetColumn(df, col, dtype, values) ==
    [n |-> df.n,
     columns |-> IF HasColumn(df, col) THEN df.columns ELSE Append(df.columns, col),
     dtypes |-> [c \in Range(df.columns) \cup {col} |-> IF c = col THEN dtype ELSE df.dtypes[c]],
     data |-> [c \in Range(df.columns) \cup {col} |-> IF c = col THEN values ELSE df.data[c]]]

\* df.select_dtypes(include=...): the columns whose dtype is one of `include`, in order
SelectDtypes(df, include) ==
    Project(df, SelectSeq(df.columns, LAMBDA c : df.dtypes[c] \in include))

----------------------------------------------------------------------------
(* 1. df_filter_pd: projection on cols_filter and split by dtype. *)

CategoricalDtypes == {"object", "category", "period[M]"}

\* the dtypes numpy counts as 'number'
NumberDtypes == {"int8", "int16", "int32", "int64", "uint8", "uint16", "uint32", "uint64",
                 "float16", "float32", "float64"}

\* df_filter_pd keeping the configured columns the table holds and ignoring the others
df_filter_pd_Lenient(df, params) ==
    LET filtered_df == Project(df, SelectSeq(params.cols_filter, LAMBDA c : HasColumn(df, c)))
    IN  [raised |-> "", arg |-> df,
         ret |-> <<SelectDtypes(filtered_df, CategoricalDtypes),
                   SelectDtypes(filtered_df, NumberDtypes)>>]

df_filter_pd(df, params) ==
    IF \E c \in Range(params.cols_filter) : ~HasColumn(df, c)
    THEN [raised |-> "KeyError", arg |-> df, ret |-> <<>>]
    ELSE LET filtered_df == Project(df, params.cols_filter)
             categorical_df == SelectDtypes(filtered_df, CategoricalDtypes)
             numerical_df == SelectDtypes(filtered_df, NumberDtypes)
         IN  [raised |-> "", arg |-> df, ret |-> <<categorical_df, numerical_df>>]

----------------------------------------------------------------------------
(* 2. min_max_scaler_pd. *)

ScalerDtypes == {"float32", "float64", "int32", "int64"}

\* Series.dropna()
DropNa(values) == SelectSeq(values, LAMBDA x : ~IsNaN(x))

\* Series.min() and Series.max(): missing values are skipped, NaN when nothing is left
SeriesMin(values) ==
    LET present == Range(DropNa(values))
    IN  IF present = {} THEN NaN
        ELSE CHOOSE m \in present : \A x \in present : RLeq(m, x)

SeriesMax(values) ==
    LET present == Range(DropNa(values))
    IN  IF present = {} THEN NaN
        ELSE CHOOSE m \in present : \A x \in present : RLeq(x, m)

\* (df[col].nunique() == 2) & (df[col].isin([0, 1]).sum() == len(df))
IsBinaryColumn(values) ==
    /\ Cardinality(Range(DropNa(values))) = 2
    /\ \A i \in 1..Len(values) : values[i] \in {Int2Rat(0), Int2Rat(1)}

\* numeric columns that are not binary, in column order
ScaledColumns(df) ==
    SelectSeq(df.columns,
              LAMBDA c : df.dtypes[c] \in ScalerDtypes /\ ~IsBinaryColumn(df.data[c]))

\* ScaleColumn without the test on range_val: a constant column is divided by 0
ScaleColumn_NoGuard(dtype, values) ==
    LET min_val == SeriesMin(values)
        max_val == SeriesMax(values)
        range_val == RSub(max_val, min_val)
    IN  [dtype |-> "float64",
         values |-> [i \in 1..Len(values) |-> RDiv(RSub(values[i], min_val), range_val)]]

\* the body of the loop for one column: [dtype, values] of df_copy[col] after it
ScaleColumn(dtype, values) ==
    LET min_val == SeriesMin(values)
        max_val == SeriesMax(values)
        range_val == RSub(max_val, min_val)
    IN  IF range_val # Int2Rat(0)
        THEN [dtype |-> "float64",
              values |-> [i \in 1..Len(values) |-> RDiv(RSub(values[i], min_val), range_val)]]
        ELSE [dtype |-> dtype, values |-> values]

\* min_max_scaler_pd returning df_copy[numeric_cols]: only the columns it rescales
min_max_scaler_pd_ScaledOnly(df) ==
    LET numeric_cols == ScaledColumns(df)
    IN  [raised |-> "", arg |-> df,
         ret |-> [n |-> df.n, columns |-> numeric_cols,
                  dtypes |-> [c \in Range(numeric_cols) |->
                                 ScaleColumn(df.dtypes[c], df.data[c]).dtype],
                  data |-> [c \in Range(numeric_cols) |->
                                 ScaleColumn(df.dtypes[c], df.data[c]).values]]]

min_max_scaler_pd(df) ==
    LET numeric_cols == ScaledColumns(df)
        df_copy ==
            [n |-> df.n, columns |-> df.columns,
             dtypes |-> [c \in Range(df.columns) |->
                 IF c \in Range(numeric_cols)
                 THEN ScaleColumn(df.dtypes[c], df.data[c]).dtype ELSE df.dtypes[c]],
             data |-> [c \in Range(df.columns) |->
                 IF c \in Range(numeric_cols)
                 THEN ScaleColumn(df.dtypes[c], df.data[c]).values ELSE df.data[c]]]
    IN  [raised |-> "", arg |-> df, ret |-> df_copy]

----------------------------------------------------------------------------
(* 3. calculate_z_scores_pd. *)

ZNaN == [s |-> 0, n |-> 0, d |-> 0]

ZZero == [s |-> 0, n |-> 0, d |-> 1]

IsZNaN(z) == z.d = 0

\* the real sgn * sqrt(num / den), den > 0, with num/den in lowest terms
ZValue(sgn, num, den) ==
    IF num = 0 THEN ZZero
    ELSE LET g == GCD(num, den) IN [s |-> sgn, n |-> num \div g, d |-> den \div g]

\* zscore with the population deviation (ddof ignored, as with the default ddof=0)
zscore_Population(a, ddof) ==
    LET n == Len(a)
        D == Lcm([i \in 1..n |-> a[i][2]])
        A == [i \in 1..n |-> a[i][1] * (D \div a[i][2])]
        S == SumSeq(A)
        dev == [i \in 1..n |-> n * A[i] - S]
        Q == SumSeq([i \in 1..n |-> dev[i] * dev[i]])
    IN  [i \in 1..n |->
            IF Q = 0 THEN ZNaN ELSE ZValue(Sign(dev[i]), dev[i] * dev[i] * n, Q)]

\* scipy.stats.zscore(a, ddof) of a sequence without missing values:
\* (a - a.mean()) / a.std(ddof).  With a[i] = A[i]/D, n = len(a), S = sum(A) and
\* Q = sum((n*A[j] - S)^2): a[i] - mean = (n*A[i] - S)/(n*D) and
\* std^2 = Q / (n^2 * D^2 * (n - ddof)), NaN when n - ddof <= 0; x/0 with x = 0 is NaN.
zscore(a, ddof) ==
    LET n == Len(a)
        D == Lcm([i \in 1..n |-> a[i][2]])
        A == [i \in 1..n |-> a[i][1] * (D \div a[i][2])]
        S == SumSeq(A)
        dev == [i \in 1..n |-> n * A[i] - S]
        Q == SumSeq([i \in 1..n |-> dev[i] * dev[i]])
    IN  [i \in 1..n |->
            IF n - ddof <= 0 \/ Q = 0 THEN ZNaN
            ELSE ZValue(Sign(dev[i]), dev[i] * dev[i] * (n - ddof), Q)]

\* the key tuple of row i over the columns `by`
KeyOf(df, by, i) == [k \in 1..Len(by) |-> df.data[by[k]][i]]

\* df.groupby(by): the groups as sets of row positions; a row with a missing key
\* value is in no group (dropna=True is the default)
GroupBy(df, by) ==
    LET keyed == {i \in 1..df.n : \A k \in 1..Len(by) : df.data[by[k]][i] # NA}
    IN  {{j \in keyed : KeyOf(df, by, j) = KeyOf(df, by, i)} : i \in keyed}

\* x.dropna() of the group's series: the positions of the group holding a value, in order
Present(values, group) == {i \in group : ~IsNaN(values[i])}

\* the values at a set of positions, in index order
Take(values, rows) ==
    LET index == SelectSeq([i \in 1..Len(values) |-> i], LAMBDA i : i \in rows)
    IN  [k \in 1..Len(index) |-> values[index[k]]]

\* Rank counting from the end: the group's z-scores land in reverse row order
Rank_Reversed(rows, i) == Cardinality({r \in rows : r >= i})

\* number of positions of `rows` that are <= i
Rank(rows, i) == Cardinality({r \in rows : r <= i})

\* TransformGroup without the small-sample guard: every group is scored
TransformGroup_NoGuard(values, group, min_group_size, keeps_index) ==
    LET present == Present(values, group)
    IN  IF present # group /\ ~keeps_index
        THEN [raised |-> "ValueError", values |-> <<>>]
        ELSE LET z == zscore(Take(values, present), 1)
             IN  [raised |-> "",
                  values |-> [i \in group |->
                                IF i \in present THEN z[Rank(present, i)] ELSE ZNaN]]

\* the lambda handed to transform, for one group: [raised, values: position -> z or NaN].
\* zscore() of a group with missing values has fewer elements than the group:
\* a Series result is re-indexed on the group (NaN where the value is missing),
\* an ndarray result does not fit the group's index and pandas raises.
TransformGroup(values, group, min_group_size, keeps_index) ==
    LET present == Present(values, group)
    IN  IF Cardinality(present) >= min_group_size
        THEN IF present # group /\ ~keeps_index
             THEN [raised |-> "ValueError", values |-> <<>>]
             ELSE LET z == zscore(Take(values, present), 1)
                  IN  [raised |-> "",
                       values |-> [i \in group |->
                                     IF i \in present THEN z[Rank(present, i)] ELSE ZNaN]]
        ELSE [raised |-> "", values |-> [i \in group |-> ZZero]]

\* the transform result left as it is (no fillna)
FillNa0_Skipped(z) == z

\* Series.fillna(0)
FillNa0(z) == IF IsZNaN(z) THEN ZZero ELSE z

\* grouped_data.transform(...).fillna(0) for one column: [raised, values: n z-scores];
\* a row that is in no group gets NaN from transform
ZScoreColumn(combined_df, groupby_cols, col, min_group_size, keeps_index) ==
    LET groups == GroupBy(combined_df, groupby_cols)
        values == combined_df.data[col]
        res == [g \in groups |-> TransformGroup(values, g, min_group_size, keeps_index)]
    IN  IF \E g \in groups : res[g].raised # ""
        THEN [raised |-> "ValueError", values |-> <<>>]
        ELSE [raised |-> "",
              values |-> [i \in 1..combined_df.n |->
                 IF \E g \in groups : i \in g
                 THEN FillNa0(res[CHOOSE h \in groups : i \in h].values[i])
                 ELSE FillNa0(ZNaN)]]

\* calculate_z_scores_pd grouping by the key columns the categorical subset holds and
\* ignoring the others
calculate_z_scores_pd_PresentKeys(categorical_df, numerical_df, params, keeps_index) ==
    LET groupby_cols == SelectSeq(params.groupby_cols, LAMBDA c : HasColumn(categorical_df, c))
        combined_df == ConcatColumns(Project(categorical_df, groupby_cols), numerical_df)
        zcol(c) == ZScoreColumn(combined_df, groupby_cols, c, params.min_group_size, keeps_index)
        znames == [k \in 1..Len(numerical_df.columns) |-> ZScoreName(numerical_df.columns[k])]
        z_scores_df ==
            [n |-> combined_df.n, columns |-> znames,
             dtypes |-> [c \in Range(znames) |-> "float64"],
             data |-> [c \in Range(znames) |-> zcol(Col(c[2])).values]]
    IN  IF \E c \in Range(numerical_df.columns) : zcol(c).raised # ""
        THEN [raised |-> "ValueError", arg |-> <<categorical_df, numerical_df>>, ret |-> <<>>]
        ELSE [raised |-> "", arg |-> <<categorical_df, numerical_df>>,
              ret |-> ConcatColumns(ConcatColumns(categorical_df, numerical_df), z_scores_df)]

\* calculate_z_scores_pd leaving out of the grouping the keys that are columns of the
\* numerical subset
calculate_z_scores_pd_NumericKeysDropped(categorical_df, numerical_df, params, keeps_index) ==
    LET groupby_cols == SelectSeq(params.groupby_cols, LAMBDA c : ~HasColumn(numerical_df, c))
        min_group_size == params.min_group_size
    IN  IF \E c \in Range(groupby_cols) : ~HasColumn(categorical_df, c)
        THEN [raised |-> "KeyError", arg |-> <<categorical_df, numerical_df>>, ret |-> <<>>]
        ELSE
        LET combined_df == ConcatColumns(Project(categorical_df, groupby_cols), numerical_df)
            zcol(c) == ZScoreColumn(combined_df, groupby_cols, c, min_group_size, keeps_index)
            znames == [k \in 1..Len(numerical_df.columns) |-> ZScoreName(numerical_df.columns[k])]
            z_scores_df ==
                [n |-> combined_df.n, columns |-> znames,
                 dtypes |-> [c \in Range(znames) |-> "float64"],
                 data |-> [c \in Range(znames) |-> zcol(Col(c[2])).values]]
        IN  IF \E c \in Range(numerical_df.columns) : zcol(c).raised # ""
            THEN [raised |-> "ValueError", arg |-> <<categorical_df, numerical_df>>, ret |-> <<>>]
            ELSE [raised |-> "", arg |-> <<categorical_df, numerical_df>>,
                  ret |-> ConcatColumns(ConcatColumns(categorical_df, numerical_df), z_scores_df)]

calculate_z_scores_pd(categorical_df, numerical_df, params, keeps_index) ==
    LET groupby_cols == params.groupby_cols
        min_group_size == params.min_group_size
    IN  IF \E c \in Range(groupby_cols) : ~HasColumn(categorical_df, c)
        THEN [raised |-> "KeyError", arg |-> <<categorical_df, numerical_df>>, ret |-> <<>>]
        ELSE
        LET combined_df == ConcatColumns(Project(categorical_df, groupby_cols), numerical_df)
            zcol(c) == ZScoreColumn(combined_df, groupby_cols, c, min_group_size, keeps_index)
            znames == [k \in 1..Len(numerical_df.columns) |-> ZScoreName(numerical_df.columns[k])]
            z_scores_df ==
                [n |-> combined_df.n, columns |-> znames,
                 dtypes |-> [c \in Range(znames) |-> "float64"],
                 data |-> [c \in Range(znames) |-> zcol(Col(c[2])).values]]
        IN  IF \E c \in Range(numerical_df.columns) : zcol(c).raised # ""
            THEN [raised |-> "ValueError", arg |-> <<categorical_df, numerical_df>>, ret |-> <<>>]
            ELSE [raised |-> "", arg |-> <<categorical_df, numerical_df>>,
                  ret |-> ConcatColumns(ConcatColumns(categorical_df, numerical_df), z_scores_df)]

----------------------------------------------------------------------------
(* 4. detectar_anomalias_pd. *)

\* a contamination value as written in the parameters, and the fraction it denotes
ContaminationFraction(contamination) ==
    CASE contamination = "0.01" -> <<1, 100>>
      [] contamination = "0.05" -> <<1, 20>>
      [] contamination = "0.5" -> <<1, 2>>
      [] contamination = "0.7" -> <<7, 10>>

\* relevant_columns = [col for col in df if col.startswith('z_score_')]
RelevantColumns(df) == SelectSeq(df.columns, LAMBDA c : c[1] = "z_score_")

\* row i of df[relevant_columns].values
FeatureRow(df, i) ==
    LET relevant_columns == RelevantColumns(df)
    IN  [k \in 1..Len(relevant_columns) |-> df.data[relevant_columns[k]][i]]

FeatureRows(df) == {FeatureRow(df, i) : i \in 1..df.n}

\* the k-th smallest (k from 0) of the scores of all rows
KthSmallest(scores, k) ==
    CHOOSE v \in Range(scores) :
        /\ Cardinality({i \in 1..Len(scores) : scores[i] < v}) <= k
        /\ Cardinality({i \in 1..Len(scores) : scores[i] <= v}) > k

\* IsolationForestPredict with the threshold at the percentile 100 * (1 - contamination)
IsolationForestPredict_UpperTail(scores, contamination) ==
    LET n == Len(scores)
        q == ContaminationFraction(contamination)[2]
        p == q - ContaminationFraction(contamination)[1]
        lo == (p * (n - 1)) \div q
        rem == (p * (n - 1)) % q
        hi == IF lo + 1 <= n - 1 THEN lo + 1 ELSE n - 1
        s_lo == KthSmallest(scores, lo)
        s_hi == KthSmallest(scores, hi)
        offset_q == s_lo * q + rem * (s_hi - s_lo)
    IN  [i \in 1..n |-> IF scores[i] * q < offset_q THEN -1 ELSE 1]

\* clf.fit(X).predict(X) of IsolationForest(contamination, random_state=42), given the
\* forest's score_samples(X) (an integer per row, lower is more anomalous):
\* offset_ = np.percentile(scores, 100 * contamination), linear interpolation between the
\* order statistics at position contamination * (n - 1); predict is -1 where
\* score - offset_ < 0 and 1 elsewhere.  All comparisons are scaled by the denominator.
IsolationForestPredict(scores, contamination) ==
    LET n == Len(scores)
        p == ContaminationFraction(contamination)[1]
        q == ContaminationFraction(contamination)[2]
        lo == (p * (n - 1)) \div q
        rem == (p * (n - 1)) % q
        hi == IF lo + 1 <= n - 1 THEN lo + 1 ELSE n - 1
        s_lo == KthSmallest(scores, lo)
        s_hi == KthSmallest(scores, hi)
        offset_q == s_lo * q + rem * (s_hi - s_lo)
    IN  [i \in 1..n |-> IF scores[i] * q < offset_q THEN -1 ELSE 1]

\* FitRaises of a model that accepts any matrix: only the contamination is validated
FitRaises_AnyMatrix(df, contamination) ==
    LET c == ContaminationFraction(contamination)
    IN  ~(c[1] > 0 /\ 2 * c[1] <= c[2])

\* what makes clf.fit raise ValueError: contamination outside (0, 0.5], no sample, no feature
FitRaises(df, contamination) ==
    LET c == ContaminationFraction(contamination)
    IN  \/ ~(c[1] > 0 /\ 2 * c[1] <= c[2])
        \/ df.n = 0
        \/ RelevantColumns(df) = <<>>

\* IsolationForest(..., random_state=42)
random_state == 42

\* what seeds a generator that was given no seed
OsEntropy == {0, 1}

\* check_random_state ignoring the seed, as with random_state=None
check_random_state_Unseeded(seed, os_entropy) == os_entropy

\* the seed of the generator the forest draws from: the one given, else the system's
\* entropy (a negative seed stands for None)
check_random_state(seed, os_entropy) == IF seed < 0 THEN os_entropy ELSE seed

\* the scores a fitted forest gives
ScoreLevels == {0, 1}

\* numerical_data = df[relevant_columns].values
FeatureMatrix(df) == [i \in 1..df.n |-> FeatureRow(df, i)]

\* the scorings clf.fit(numerical_data) can end with: the one already seen for this seed
\* and this matrix, any when there is none
Fits(fitted, seed, df) ==
    IF \E f \in fitted : f.seed = seed /\ f.X = FeatureMatrix(df)
    THEN {f.score_of : f \in {g \in fitted : g.seed = seed /\ g.X = FeatureMatrix(df)}}
    ELSE [FeatureRows(df) -> ScoreLevels]

Remember(fitted, seed, df, score_of) ==
    fitted \cup {[seed |-> seed, X |-> FeatureMatrix(df), score_of |-> score_of]}

\* DetectLoop writing every prediction under the name of the first contamination value
RECURSIVE DetectLoop_OneName(_, _, _, _)
DetectLoop_OneName(df, scores, contamination_values, k) ==
    IF k > Len(contamination_values) THEN [raised |-> "", arg |-> df, ret |-> <<df>>]
    ELSE LET contamination == contamination_values[k]
         IN  IF FitRaises(df, contamination)
             THEN [raised |-> "ValueError", arg |-> df, ret |-> <<>>]
             ELSE DetectLoop_OneName(SetColumn(df, AnomalyName(contamination_values[1]), "int64",
                                               IsolationForestPredict(scores, contamination)),
                                     scores, contamination_values, k + 1)

\* DetectLoop in which a model after the first is also handed the flag column written for
\* the value before it
RECURSIVE DetectLoop_SeesFlags(_, _, _, _)
DetectLoop_SeesFlags(df, scores, contamination_values, k) ==
    IF k > Len(contamination_values) THEN [raised |-> "", arg |-> df, ret |-> <<df>>]
    ELSE LET contamination == contamination_values[k]
             seen == [i \in 1..df.n |->
                        IF k = 1 THEN scores[i]
                        ELSE scores[i] - df.data[AnomalyName(contamination_values[k - 1])][i]]
         IN  IF FitRaises(df, contamination)
             THEN [raised |-> "ValueError", arg |-> df, ret |-> <<>>]
             ELSE DetectLoop_SeesFlags(SetColumn(df, AnomalyName(contamination), "int64",
                                                 IsolationForestPredict(seen, contamination)),
                                       scores, contamination_values, k + 1)

\* the loop over contamination_values from position k on; numerical_data was taken from
\* the frame before the loop, score_of maps a feature row to the forest's score for it
RECURSIVE DetectLoop(_, _, _, _)
DetectLoop(df, scores, contamination_values, k) ==
    IF k > Len(contamination_values) THEN [raised |-> "", arg |-> df, ret |-> <<df>>]
    ELSE LET contamination == contamination_values[k]
         IN  IF FitRaises(df, contamination)
             THEN [raised |-> "ValueError", arg |-> df, ret |-> <<>>]
             ELSE DetectLoop(SetColumn(df, AnomalyName(contamination), "int64",
                                       IsolationForestPredict(scores, contamination)),
                             scores, contamination_values, k + 1)

\* the frame handed in is written in place and is the frame returned
detectar_anomalias_pd(df, params, score_of) ==
    DetectLoop(df, [i \in 1..df.n |-> score_of[FeatureRow(df, i)]],
               params.contamination_values, 1)

----------------------------------------------------------------------------
(* 5. procesar_anomalias_pd. *)

\* the report without the amount
ReportColumns_NoMonto ==
    <<Col("CUENTA"), Col("MES_ANIO"), Col("PAIS_ORIGEN_DESTINO_TRX"), Col("MARCA_ANOMALIA")>>

ReportColumns ==
    <<Col("CUENTA"), Col("MES_ANIO"), Col("PAIS_ORIGEN_DESTINO_TRX"), Col("MONTO"),
      Col("MARCA_ANOMALIA")>>

SummaryKey == <<Col("CUENTA"), Col("MES_ANIO")>>

\* sort order of the categorical values the model draws
Ord(v) ==
    CASE v = "S1" -> 1
      [] v = "S2" -> 2
      [] v = "2024-01" -> 1
      [] v = "2024-02" -> 2

\* KeyLess for a grouping sorted in descending key order
KeyLess_Descending(a, b) ==
    \E k \in 1..Len(a) : Ord(b[k]) < Ord(a[k]) /\ \A j \in 1..(k - 1) : a[j] = b[j]

KeyLess(a, b) ==
    \E k \in 1..Len(a) : Ord(a[k]) < Ord(b[k]) /\ \A j \in 1..(k - 1) : a[j] = b[j]

\* the groups of df.groupby(by) in sorted key order (sort=True is the default)
RECURSIVE SortGroups(_, _, _)
SortGroups(df, by, groups) ==
    IF groups = {} THEN <<>>
    ELSE LET key(g) == KeyOf(df, by, CHOOSE i \in g : TRUE)
             first == CHOOSE g \in groups : \A h \in groups \ {g} : KeyLess(key(g), key(h))
         IN  <<first>> \o SortGroups(df, by, groups \ {first})

\* Marca with the two labels exchanged
Marca_Swapped(x) == IF x = -1 THEN "NO ANOMALO" ELSE "ANOMALO"

\* lambda x: 'ANOMALO' if x == -1 else 'NO ANOMALO'
Marca(x) == IF x = -1 THEN "ANOMALO" ELSE "NO ANOMALO"

\* Resumen counting the normal rows over the whole frame instead of the group
Resumen_WholeFrame(df, group, contamination_values) ==
    LET i0 == CHOOSE i \in group : TRUE
        flags(c) == df.data[AnomalyName(c)]
    IN  [CUENTA |-> df.data[Col("CUENTA")][i0],
         MES_ANIO |-> df.data[Col("MES_ANIO")][i0],
         counts |-> [c \in Range(contamination_values) |->
                        [anomalas |-> Cardinality({i \in group : flags(c)[i] = -1}),
                         no_anomalas |-> Cardinality({i \in 1..df.n : flags(c)[i] = 1})]]]

\* Resumen with the two counts exchanged
Resumen_CountsSwapped(df, group, contamination_values) ==
    LET i0 == CHOOSE i \in group : TRUE
        flags(c) == df.data[AnomalyName(c)]
    IN  [CUENTA |-> df.data[Col("CUENTA")][i0],
         MES_ANIO |-> df.data[Col("MES_ANIO")][i0],
         counts |-> [c \in Range(contamination_values) |->
                        [anomalas |-> Cardinality({i \in group : flags(c)[i] = 1}),
                         no_anomalas |-> Cardinality({i \in group : flags(c)[i] = -1})]]]

\* the summary dict of one group
Resumen(df, group, contamination_values) ==
    LET i0 == CHOOSE i \in group : TRUE
        flags(c) == df.data[AnomalyName(c)]
    IN  [CUENTA |-> df.data[Col("CUENTA")][i0],
         MES_ANIO |-> df.data[Col("MES_ANIO")][i0],
         counts |-> [c \in Range(contamination_values) |->
                        [anomalas |-> Cardinality({i \in group : flags(c)[i] = -1}),
                         no_anomalas |-> Cardinality({i \in group : flags(c)[i] = 1})]]]

\* procesar_anomalias_pd marking every row 'NO ANOMALO' when the operative flag column
\* does not exist, instead of raising
procesar_anomalias_pd_Fallback(df, params) ==
    LET contamination_values == params.contamination_values
        columna_anomalia == AnomalyName(params.contamination_value)
        marked == SetColumn(df, Col("MARCA_ANOMALIA"), "object",
                            [i \in 1..df.n |->
                                IF HasColumn(df, columna_anomalia)
                                THEN Marca(df.data[columna_anomalia][i]) ELSE "NO ANOMALO"])
        grouped == SortGroups(marked, SummaryKey, GroupBy(marked, SummaryKey))
    IN  [raised |-> "", arg |-> marked,
         ret |-> <<Project(marked, ReportColumns),
                   [k \in 1..Len(grouped) |->
                       Resumen(marked, grouped[k], contamination_values)]>>]

\* procesar_anomalias_pd reading the flag of the first contamination value run, whatever
\* the operative one is
procesar_anomalias_pd_FirstLevel(df, params) ==
    LET contamination_values == params.contamination_values
        columna_anomalia == AnomalyName(contamination_values[1])
        marked == SetColumn(df, Col("MARCA_ANOMALIA"), "object",
                            [i \in 1..df.n |-> Marca(df.data[columna_anomalia][i])])
        grouped == SortGroups(marked, SummaryKey, GroupBy(marked, SummaryKey))
    IN  IF ~HasColumn(df, AnomalyName(params.contamination_value))
        THEN [raised |-> "KeyError", arg |-> df, ret |-> <<>>]
        ELSE [raised |-> "", arg |-> marked,
              ret |-> <<Project(marked, ReportColumns),
                        [k \in 1..Len(grouped) |->
                            Resumen(marked, grouped[k], contamination_values)]>>]

\* procesar_anomalias_pd whose report keeps only the rows that have both summary keys
procesar_anomalias_pd_DropsMissing(df, params) ==
    LET contamination_values == params.contamination_values
        columna_anomalia == AnomalyName(params.contamination_value)
    IN  IF ~HasColumn(df, columna_anomalia)
        THEN [raised |-> "KeyError", arg |-> df, ret |-> <<>>]
        ELSE
        LET marked == SetColumn(df, Col("MARCA_ANOMALIA"), "object",
                                [i \in 1..df.n |-> Marca(df.data[columna_anomalia][i])])
            keyed == SelectSeq([i \in 1..df.n |-> i],
                               LAMBDA i : \A k \in 1..Len(SummaryKey) :
                                             df.data[SummaryKey[k]][i] # NA)
            grouped == SortGroups(marked, SummaryKey, GroupBy(marked, SummaryKey))
        IN  IF \E c \in Range(ReportColumns) : ~HasColumn(marked, c)
            THEN [raised |-> "KeyError", arg |-> marked, ret |-> <<>>]
            ELSE IF grouped # <<>> /\ \E c \in Range(contamination_values) :
                                        ~HasColumn(marked, AnomalyName(c))
            THEN [raised |-> "KeyError", arg |-> marked, ret |-> <<>>]
            ELSE [raised |-> "", arg |-> marked,
                  ret |-> <<[n |-> Len(keyed), columns |-> ReportColumns,
                             dtypes |-> [c \in Range(ReportColumns) |-> marked.dtypes[c]],
                             data |-> [c \in Range(ReportColumns) |->
                                         [k \in 1..Len(keyed) |-> marked.data[c][keyed[k]]]]],
                            [k \in 1..Len(grouped) |->
                                Resumen(marked, grouped[k], contamination_values)]>>]

\* MARCA_ANOMALIA is written into the frame handed in; the report is a projection of it
procesar_anomalias_pd(df, params) ==
    LET contamination_values == params.contamination_values
        columna_anomalia == AnomalyName(params.contamination_value)
    IN  IF ~HasColumn(df, columna_anomalia)
        THEN [raised |-> "KeyError", arg |-> df, ret |-> <<>>]
        ELSE
        LET marked == SetColumn(df, Col("MARCA_ANOMALIA"), "object",
                                [i \in 1..df.n |-> Marca(df.data[columna_anomalia][i])])
        IN  IF \E c \in Range(ReportColumns) : ~HasColumn(marked, c)
            THEN [raised |-> "KeyError", arg |-> marked, ret |-> <<>>]
            ELSE
            LET resultado_df == Project(marked, ReportColumns)
                grouped == SortGroups(marked, SummaryKey, GroupBy(marked, SummaryKey))
            IN  IF grouped # <<>> /\ \E c \in Range(contamination_values) :
                                        ~HasColumn(marked, AnomalyName(c))
                THEN [raised |-> "KeyError", arg |-> marked, ret |-> <<>>]
                ELSE [raised |-> "", arg |-> marked,
                      ret |-> <<resultado_df,
                                [k \in 1..Len(grouped) |->
                                    Resumen(marked, grouped[k], contamination_values)]>>]

----------------------------------------------------------------------------
(* Inputs: the feature table in storage and parameters_anomalias. *)

\* the rows a feature table is drawn from
RowPool ==
    {[CUENTA |-> "S1", MES_ANIO |-> "2024-01", MONTO |-> Int2Rat(0)],
     [CUENTA |-> "S1", MES_ANIO |-> "2024-01", MONTO |-> Int2Rat(3)],
     [CUENTA |-> "S1", MES_ANIO |-> "2024-01", MONTO |-> NaN],
     [CUENTA |-> "S2", MES_ANIO |-> "2024-01", MONTO |-> Int2Rat(1)],
     [CUENTA |-> NA,   MES_ANIO |-> "2024-01", MONTO |-> Int2Rat(3)],
     [CUENTA |-> "S1", MES_ANIO |-> NA,        MONTO |-> Int2Rat(0)]}

\* the rows a table of one more row is drawn from: one account, one month
DenseRowPool ==
    {[CUENTA |-> "S1", MES_ANIO |-> "2024-01", MONTO |-> Int2Rat(0)],
     [CUENTA |-> "S1", MES_ANIO |-> "2024-01", MONTO |-> Int2Rat(3)]}

\* the dtypes MONTO can have: an integer dtype holds no missing value
MontoDtypes(rows) ==
    IF \E i \in 1..Len(rows) : IsNaN(rows[i].MONTO) THEN {"float64"} ELSE {"int64", "int16"}

\* the columns the report needs
AnalysisColumns ==
    <<Col("CUENTA"), Col("MES_ANIO"), Col("PAIS_ORIGEN_DESTINO_TRX"), Col("MONTO")>>

\* the feature table also holds the transaction date MES_ANIO was derived from
FeatureColumns == Append(AnalysisColumns, Col("FECHA_TRANSACCION"))

FeatureTable(rows, monto_dtype) ==
    [n |-> Len(rows), columns |-> FeatureColumns,
     dtypes |-> [c \in Range(FeatureColumns) |->
                   CASE c = Col("MES_ANIO") -> "period[M]"
                     [] c = Col("MONTO") -> monto_dtype
                     [] c = Col("FECHA_TRANSACCION") -> "datetime64[ns]"
                     [] OTHER -> "object"],
     data |-> [c \in Range(FeatureColumns) |->
                   CASE c = Col("CUENTA") -> [i \in 1..Len(rows) |-> rows[i].CUENTA]
                     [] c = Col("MES_ANIO") -> [i \in 1..Len(rows) |-> rows[i].MES_ANIO]
                     [] c = Col("MONTO") -> [i \in 1..Len(rows) |-> rows[i].MONTO]
                     [] c = Col("FECHA_TRANSACCION") -> [i \in 1..Len(rows) |-> "2024-01-15"]
                     [] OTHER -> [i \in 1..Len(rows) |-> "CO_US"]]]

\* every table of at most MaxRows rows, and the dense tables of one more row
RowLists ==
    UNION {[1..n -> RowPool] : n \in 0..MaxRows} \cup [1..(MaxRows + 1) -> DenseRowPool]

FeatureTables ==
    UNION {{FeatureTable(rows, dtype) : dtype \in MontoDtypes(rows)} : rows \in RowLists}

ParametersPool ==
    {[cols_filter |-> AnalysisColumns, groupby_cols |-> <<Col("CUENTA"), Col("MES_ANIO")>>,
      min_group_size |-> 2, contamination_values |-> <<"0.05", "0.5">>,
      contamination_value |-> "0.5"],
     [cols_filter |-> AnalysisColumns, groupby_cols |-> <<Col("CUENTA")>>,
      min_group_size |-> 3, contamination_values |-> <<"0.5", "0.05">>,
      contamination_value |-> "0.05"],
     [cols_filter |-> AnalysisColumns, groupby_cols |-> <<Col("CUENTA"), Col("MES_ANIO")>>,
      min_group_size |-> 1, contamination_values |-> <<"0.05">>,
      contamination_value |-> "0.5"],
     \* the date is analysed and is a group key: it is in neither subset
     [cols_filter |-> FeatureColumns,
      groupby_cols |-> <<Col("CUENTA"), Col("FECHA_TRANSACCION")>>,
      min_group_size |-> 2, contamination_values |-> <<"0.05", "0.5">>,
      contamination_value |-> "0.5"],
     \* a configured column the feature table does not hold
     [cols_filter |-> <<Col("CUENTA"), Col("MES_ANIO"), Col("SEGMENTO"), Col("MONTO")>>,
      groupby_cols |-> <<Col("CUENTA"), Col("MES_ANIO")>>,
      min_group_size |-> 2, contamination_values |-> <<"0.05", "0.5">>,
      contamination_value |-> "0.5"],
     \* no numerical column is analysed: the detector gets no z_score_ column
     [cols_filter |-> <<Col("CUENTA"), Col("MES_ANIO"), Col("PAIS_ORIGEN_DESTINO_TRX")>>,
      groupby_cols |-> <<Col("CUENTA"), Col("MES_ANIO")>>,
      min_group_size |-> 2, contamination_values |-> <<"0.05", "0.5">>,
      contamination_value |-> "0.5"],
     \* a numerical column is a group key
     [cols_filter |-> AnalysisColumns, groupby_cols |-> <<Col("CUENTA"), Col("MONTO")>>,
      min_group_size |-> 2, contamination_values |-> <<"0.05", "0.5">>,
      contamination_value |-> "0.5"]}

Paths == {"data_trx_feature_path", "data_info_anomaly_trx_path", "sumary_anomaly_trx_path"}

None == <<>>

\* main is not running: no argument, no stage called, the locals of run_pipeline_raw unset
MainIdle ==
    /\ argv = <<>>
    /\ started = <<>>
    /\ returned = <<>>
    /\ data_clientes_pd = None
    /\ data_productos_pd = None
    /\ data_trx_pd = None
    /\ df_final = None
    /\ data_customers_raw_pd = None
    /\ data_trx_raw_pd = None

----------------------------------------------------------------------------
(* run_pipeline_anomaly_detection, one action per statement. *)

Init ==
    /\ pc = "start"
    /\ parameters \in ParametersPool
    /\ \E table \in FeatureTables :
          storage = [p \in Paths |-> IF p = "data_trx_feature_path" THEN <<table>> ELSE None]
    /\ data_trx_feature_pd = None
    /\ data_filter_anomalia_pd = None
    /\ data_anomalia_scaled_pd = None
    /\ data_score_z_pd = None
    /\ df_con_anomalias_pd = None
    /\ transacciones_marcadas_pd = None
    /\ resumen_anomalias = None
    /\ raised = ""
    /\ forest = {}
    /\ rerun_score_z_pd = None
    /\ rerun_con_anomalias_pd = None
    /\ MainIdle

\* the stages in the order main calls them for 'All Pipelines'
StageOrder ==
    <<"run_pipeline_raw", "run_pipeline_intermediate", "run_pipeline_primary",
      "run_pipeline_feature_engineering", "run_pipeline_anomaly_detection",
      "run_pipeline_time_series">>

\* the value of sys.argv[1] that runs one stage alone
StageArgument ==
    [run_pipeline_raw |-> "Pipeline Raw",
     run_pipeline_intermediate |-> "Pipeline Intermediate",
     run_pipeline_primary |-> "Pipeline Primary",
     run_pipeline_feature_engineering |-> "Pipeline Feature Engineering",
     run_pipeline_anomaly_detection |-> "Pipeline Anomaly Detection",
     run_pipeline_time_series |-> "Pipeline Time Series"]

\* where main goes on when a stage returns: the next call for 'All Pipelines', else its end
AfterStage(stage) ==
    LET k == CHOOSE i \in 1..Len(StageOrder) : StageOrder[i] = stage
    IN  IF argv[1] = "All Pipelines" /\ k < Len(StageOrder) THEN StageOrder[k + 1]
        ELSE "returned"

\* the stage pc is in
CurrentStage == IF pc \in {"raw_loaded", "raw_merged"} THEN "run_pipeline_raw" ELSE pc

\* a main that catches what a stage raises and goes on with the call after it
Raise_Caught(exception) ==
    /\ pc' = IF CurrentStage \in Range(StageOrder) THEN AfterStage(CurrentStage) ELSE "failed"
    /\ raised' = exception

\* an exception leaves the stage and, nothing catching it, main: nothing after it runs
Raise(exception) ==
    /\ pc' = "failed"
    /\ raised' = exception

\* 5.1 Utils.load_parquet_from_s3
LoadFeature ==
    /\ pc = "start"
    /\ data_trx_feature_pd' = storage["data_trx_feature_path"][1]
    /\ pc' = "loaded"
    /\ UNCHANGED <<parameters, storage, data_filter_anomalia_pd, data_anomalia_scaled_pd,
                   data_score_z_pd, df_con_anomalias_pd, transacciones_marcadas_pd,
                   resumen_anomalias, raised>>
    /\ UNCHANGED detector_vars
    /\ UNCHANGED main_vars

\* the S3 request of 5.1 fails
LoadFeatureFails ==
    /\ pc = "start"
    /\ Raise("ClientError")
    /\ UNCHANGED <<parameters, storage, data_trx_feature_pd, data_filter_anomalia_pd,
                   data_anomalia_scaled_pd, data_score_z_pd, df_con_anomalias_pd,
                   transacciones_marcadas_pd, resumen_anomalias>>
    /\ UNCHANGED detector_vars
    /\ UNCHANGED main_vars

\* 5.2 df_filter_pd
Filter ==
    /\ pc = "loaded"
    /\ LET r == df_filter_pd(data_trx_feature_pd, parameters)
       IN  /\ data_trx_feature_pd' = r.arg
           /\ IF r.raised # ""
              THEN Raise(r.raised) /\ UNCHANGED data_filter_anomalia_pd
              ELSE /\ data_filter_anomalia_pd' = r.ret
                   /\ pc' = "filtered"
                   /\ UNCHANGED raised
    /\ UNCHANGED <<parameters, storage, data_anomalia_scaled_pd, data_score_z_pd,
                   df_con_anomalias_pd, transacciones_marcadas_pd, resumen_anomalias>>
    /\ UNCHANGED detector_vars
    /\ UNCHANGED main_vars

\* 5.2 min_max_scaler_pd on the numerical subset
Scale ==
    /\ pc = "filtered"
    /\ LET r == min_max_scaler_pd(data_filter_anomalia_pd[2])
       IN  /\ data_filter_anomalia_pd' = <<data_filter_anomalia_pd[1], r.arg>>
           /\ data_anomalia_scaled_pd' = r.ret
           /\ pc' = "scaled"
    /\ UNCHANGED <<parameters, storage, data_trx_feature_pd, data_score_z_pd,
                   df_con_anomalias_pd, transacciones_marcadas_pd, resumen_anomalias, raised>>
    /\ UNCHANGED detector_vars
    /\ UNCHANGED main_vars

\* 5.3 calculate_z_scores_pd, with either behaviour of the installed scipy
ZScores ==
    /\ pc = "scaled"
    /\ \E keeps_index \in BOOLEAN :
         LET r == calculate_z_scores_pd(data_filter_anomalia_pd[1], data_anomalia_scaled_pd,
                                        parameters, keeps_index)
         IN  /\ data_filter_anomalia_pd' = <<r.arg[1], data_filter_anomalia_pd[2]>>
             /\ data_anomalia_scaled_pd' = r.arg[2]
             /\ IF r.raised # ""
                THEN Raise(r.raised) /\ UNCHANGED data_score_z_pd
                ELSE /\ data_score_z_pd' = r.ret
                     /\ pc' = "scored"
                     /\ UNCHANGED raised
    /\ UNCHANGED <<parameters, storage, data_trx_feature_pd, df_con_anomalias_pd,
                   transacciones_marcadas_pd, resumen_anomalias>>
    /\ UNCHANGED detector_vars
    /\ UNCHANGED main_vars

\* 5.4 detectar_anomalias_pd; the scores of a forest are any function of the feature
\* rows, the same whenever the same seed meets the same matrix
Detect ==
    /\ pc = "scored"
    /\ \E os_entropy \in OsEntropy :
       \E score_of \in Fits(forest, check_random_state(random_state, os_entropy),
                            data_score_z_pd) :
         LET r == detectar_anomalias_pd(data_score_z_pd, parameters, score_of)
         IN  /\ forest' = Remember(forest, check_random_state(random_state, os_entropy),
                                   data_score_z_pd, score_of)
             /\ data_score_z_pd' = r.arg
             /\ IF r.raised # ""
                THEN Raise(r.raised) /\ UNCHANGED df_con_anomalias_pd
                ELSE /\ df_con_anomalias_pd' = r.ret[1]
                     /\ pc' = "detected"
                     /\ UNCHANGED raised
    /\ UNCHANGED <<parameters, storage, data_trx_feature_pd, data_filter_anomalia_pd,
                   data_anomalia_scaled_pd, transacciones_marcadas_pd, resumen_anomalias,
                   rerun_score_z_pd, rerun_con_anomalias_pd>>
    /\ UNCHANGED main_vars

\* 5.5 procesar_anomalias_pd; df_con_anomalias_pd and data_score_z_pd are one object
Procesar ==
    /\ pc = "detected"
    /\ LET r == procesar_anomalias_pd(df_con_anomalias_pd, parameters)
       IN  /\ df_con_anomalias_pd' = r.arg
           /\ data_score_z_pd' = r.arg
           /\ IF r.raised # ""
              THEN Raise(r.raised) /\ UNCHANGED <<transacciones_marcadas_pd, resumen_anomalias>>
              ELSE /\ transacciones_marcadas_pd' = r.ret[1]
                   /\ resumen_anomalias' = r.ret[2]
                   /\ pc' = "processed"
                   /\ UNCHANGED raised
    /\ UNCHANGED <<parameters, storage, data_trx_feature_pd, data_filter_anomalia_pd,
                   data_anomalia_scaled_pd>>
    /\ UNCHANGED detector_vars
    /\ UNCHANGED main_vars

\* Utils.save_parquet_to_s3: put_object replaces the object at the path
save_parquet_to_s3(store, df, filepath) == [store EXCEPT ![filepath] = <<df>>]

\* 5.6 first save: the row-level table
SaveTransacciones ==
    /\ pc = "processed"
    /\ storage' = save_parquet_to_s3(storage, transacciones_marcadas_pd,
                                     "data_info_anomaly_trx_path")
    /\ pc' = "saved_transacciones"
    /\ UNCHANGED <<parameters, data_trx_feature_pd, data_filter_anomalia_pd,
                   data_anomalia_scaled_pd, data_score_z_pd, df_con_anomalias_pd,
                   transacciones_marcadas_pd, resumen_anomalias, raised>>
    /\ UNCHANGED detector_vars
    /\ UNCHANGED main_vars

\* to_parquet or put_object of the first save raises
SaveTransaccionesFails ==
    /\ pc = "processed"
    /\ Raise("ClientError")
    /\ UNCHANGED <<parameters, storage, data_trx_feature_pd, data_filter_anomalia_pd,
                   data_anomalia_scaled_pd, data_score_z_pd, df_con_anomalias_pd,
                   transacciones_marcadas_pd, resumen_anomalias>>
    /\ UNCHANGED detector_vars
    /\ UNCHANGED main_vars

\* 5.6 second save: the summary table
SaveResumen ==
    /\ pc = "saved_transacciones"
    /\ storage' = save_parquet_to_s3(storage, resumen_anomalias, "sumary_anomaly_trx_path")
    /\ pc' = "done"
    /\ UNCHANGED <<parameters, data_trx_feature_pd, data_filter_anomalia_pd,
                   data_anomalia_scaled_pd, data_score_z_pd, df_con_anomalias_pd,
                   transacciones_marcadas_pd, resumen_anomalias, raised>>
    /\ UNCHANGED detector_vars
    /\ UNCHANGED main_vars

\* to_parquet or put_object of the second save raises
SaveResumenFails ==
    /\ pc = "saved_transacciones"
    /\ Raise("ClientError")
    /\ UNCHANGED <<parameters, storage, data_trx_feature_pd, data_filter_anomalia_pd,
                   data_anomalia_scaled_pd, data_score_z_pd, df_con_anomalias_pd,
                   transacciones_marcadas_pd, resumen_anomalias>>
    /\ UNCHANGED detector_vars
    /\ UNCHANGED main_vars

Next ==
    \/ LoadFeature
    \/ LoadFeatureFails
    \/ Filter
    \/ Scale
    \/ ZScores
    \/ Detect
    \/ Procesar
    \/ SaveTransacciones
    \/ SaveTransaccionesFails
    \/ SaveResumen
    \/ SaveResumenFails

Spec == Init /\ [][Next]_vars

----------------------------------------------------------------------------
(* The run on a feature table of 100 rows of two accounts and two months, five of   *)
(* the rows of account S1, with min_group_size = 10 and the contamination values    *)
(* 0.01 and 0.05, 0.05 operative.                                                   *)

\* how the 100 rows are laid out: the five rows of S1 first or last; the months
\* alternating inside each account or one month per account; the amounts are i mod 3
ScenarioLayouts ==
    [small_first : BOOLEAN, months : {"alternating", "by_account"}, amounts : {3}]

ScenarioRow(layout, i) ==
    LET small == IF layout.small_first THEN i <= 5 ELSE i > 95
    IN  [CUENTA |-> IF small THEN "S1" ELSE "S2",
         MES_ANIO |-> IF layout.months = "alternating"
                      THEN (IF i % 2 = 1 THEN "2024-01" ELSE "2024-02")
                      ELSE (IF small THEN "2024-01" ELSE "2024-02"),
         MONTO |-> Int2Rat(i % layout.amounts)]

ScenarioTables ==
    {FeatureTable([i \in 1..100 |-> ScenarioRow(layout, i)], "int64") :
        layout \in ScenarioLayouts}

ScenarioParameters ==
    {[cols_filter |-> AnalysisColumns, groupby_cols |-> groupby_cols,
      min_group_size |-> 10, contamination_values |-> <<"0.01", "0.05">>,
      contamination_value |-> "0.05"] :
        groupby_cols \in {<<Col("CUENTA")>>, <<Col("CUENTA"), Col("MES_ANIO")>>}}

InitScenario ==
    /\ pc = "start"
    /\ parameters \in ScenarioParameters
    /\ \E table \in ScenarioTables :
          storage = [p \in Paths |-> IF p = "data_trx_feature_path" THEN <<table>> ELSE None]
    /\ data_trx_feature_pd = None
    /\ data_filter_anomalia_pd = None
    /\ data_anomalia_scaled_pd = None
    /\ data_score_z_pd = None
    /\ df_con_anomalias_pd = None
    /\ transacciones_marcadas_pd = None
    /\ resumen_anomalias = None
    /\ raised = ""
    /\ forest = {}
    /\ rerun_score_z_pd = None
    /\ rerun_con_anomalias_pd = None
    /\ MainIdle

SpecScenario == InitScenario /\ [][Next]_vars

----------------------------------------------------------------------------
(* main and the six stages of PipelineOrchestration.  A table is the record of its  *)
(* column labels; an object in storage is [origin, content]: who wrote it and what. *)

DataFrame(columns) == [type |-> "DataFrame", columns |-> columns]

Str(value) == [type |-> "str", value |-> value]

\* the parameters_catalog paths a stage loads, in the order of its load calls
StageInputs(stage) ==
    CASE stage = "run_pipeline_raw" ->
            <<"data_clientes_input_path", "data_producto_input_path", "data_trx_input_path">>
      [] stage = "run_pipeline_intermediate" ->
            <<"data_customers_raw_path", "data_trx_raw_path">>
      [] stage = "run_pipeline_primary" ->
            <<"data_customers_intermediate_path", "data_trx_intermediate_path">>
      [] stage = "run_pipeline_feature_engineering" ->
            <<"data_customers_primary_path", "data_trx_primary_path">>
      [] stage = "run_pipeline_anomaly_detection" -> <<"data_trx_feature_path">>
      [] stage = "run_pipeline_time_series" -> <<"data_customers_feature_path">>

\* the parameters_catalog paths a stage saves, in the order of its save calls
StageOutputs(stage) ==
    CASE stage = "run_pipeline_raw" ->
            <<"data_customers_raw_path", "data_trx_raw_path">>
      [] stage = "run_pipeline_intermediate" ->
            <<"data_customers_intermediate_path", "data_trx_intermediate_path">>
      [] stage = "run_pipeline_primary" ->
            <<"data_customers_primary_path", "data_trx_primary_path">>
      [] stage = "run_pipeline_feature_engineering" ->
            <<"data_customers_feature_path", "data_trx_feature_path">>
      [] stage = "run_pipeline_anomaly_detection" ->
            <<"data_info_anomaly_trx_path", "sumary_anomaly_trx_path">>
      [] stage = "run_pipeline_time_series" ->
            <<"plot_decomposition_path", "plot_seasonal_component_path",
              "plot_forecast_path">>

CatalogPaths ==
    UNION {Range(StageInputs(stage)) \cup Range(StageOutputs(stage)) :
              stage \in Range(StageOrder)}

\* the column labels of pd.merge(left, right, how='left', left_on=on, right_on=on): the
\* key once, a label both sides have gets the suffixes _x and _y
MergeColumns(left, right, on) ==
    [k \in 1..Len(left) |->
        IF left[k] # on /\ left[k] \in Range(right) THEN left[k] \o "_x" ELSE left[k]]
    \o
    LET others == SelectSeq(right, LAMBDA c : c # on)
    IN  [k \in 1..Len(others) |->
            IF others[k] \in Range(left) THEN others[k] \o "_y" ELSE others[k]]

\* PipelineRaw.merge_dataframes_pd: [raised, ret]; one table, df_final, is returned
merge_dataframes_pd(df_clientes, df_productos, df_trx, params) ==
    LET codigo_join_clientes_prod == params.codigo_join_clientes_prod
        codigo_join_prod_trx == params.codigo_join_prod_trx
        df_merged == MergeColumns(df_clientes.columns, df_productos.columns,
                                  codigo_join_clientes_prod)
    IN  IF \/ codigo_join_clientes_prod \notin Range(df_clientes.columns)
           \/ codigo_join_clientes_prod \notin Range(df_productos.columns)
           \/ codigo_join_prod_trx \notin Range(df_trx.columns)
           \/ codigo_join_prod_trx \notin Range(df_merged)
        THEN [raised |-> "KeyError", ret |-> <<>>]
        ELSE [raised |-> "",
              ret |-> DataFrame(MergeColumns(df_merged, df_trx.columns, codigo_join_prod_trx))]

\* a, b = value: iterating a DataFrame yields its column labels
Unpack2(value) ==
    IF Len(value.columns) # 2 THEN [raised |-> "ValueError", ret |-> <<>>]
    ELSE [raised |-> "", ret |-> <<Str(value.columns[1]), Str(value.columns[2])>>]

\* the headers of the three input extracts
ClientesHeaders == {<<"CODIGO">>, <<"CODIGO", "TIPO_CLIENTE">>, <<"TIPO_CLIENTE">>}

ProductosHeaders ==
    {<<"CODIGO", "CUENTA">>, <<"CODIGO", "CUENTA", "TIPO_CLIENTE">>, <<"CODIGO">>}

TrxHeaders == {<<"CUENTA">>, <<"CUENTA", "MONTO">>}

ParametersRawPool == {[codigo_join_clientes_prod |-> "CODIGO", codigo_join_prod_trx |-> "CUENTA"]}

\* the arguments main is started with
Arguments ==
    {<<>>, <<"All Pipelines">>, <<"Pipeline Unknown">>}
        \cup {<<StageArgument[stage]>> : stage \in Range(StageOrder)}

\* storage before main runs: the extracts that exist, and what an earlier run that got
\* through its first `done` stages left behind
StorageBefore(clientes, productos, trx, missing, done) ==
    [p \in CatalogPaths |->
        IF p = missing THEN None
        ELSE IF p = "data_clientes_input_path"
             THEN <<[origin |-> "extract", content |-> DataFrame(clientes)]>>
        ELSE IF p = "data_producto_input_path"
             THEN <<[origin |-> "extract", content |-> DataFrame(productos)]>>
        ELSE IF p = "data_trx_input_path"
             THEN <<[origin |-> "extract", content |-> DataFrame(trx)]>>
        ELSE IF \E k \in 1..done : p \in Range(StageOutputs(StageOrder[k]))
             THEN <<[origin |-> "earlier run", content |-> "parquet"]>>
        ELSE None]

InitMain ==
    /\ pc = "main"
    /\ argv \in Arguments
    /\ \E params \in ParametersRawPool : parameters = [parameters_raw |-> params]
    /\ \E clientes \in ClientesHeaders, productos \in ProductosHeaders, trx \in TrxHeaders,
          missing \in Range(StageInputs("run_pipeline_raw")) \cup {"none"},
          done \in 0..Len(StageOrder) :
          storage = StorageBefore(clientes, productos, trx, missing, done)
    /\ started = <<>>
    /\ returned = <<>>
    /\ data_clientes_pd = None
    /\ data_productos_pd = None
    /\ data_trx_pd = None
    /\ df_final = None
    /\ data_customers_raw_pd = None
    /\ data_trx_raw_pd = None
    /\ data_trx_feature_pd = None
    /\ data_filter_anomalia_pd = None
    /\ data_anomalia_scaled_pd = None
    /\ data_score_z_pd = None
    /\ df_con_anomalias_pd = None
    /\ transacciones_marcadas_pd = None
    /\ resumen_anomalias = None
    /\ raised = ""
    /\ forest = {}
    /\ rerun_score_z_pd = None
    /\ rerun_con_anomalias_pd = None

\* the locals of run_pipeline_anomaly_detection and of the detector
anomaly_vars ==
    <<data_trx_feature_pd, data_filter_anomalia_pd, data_anomalia_scaled_pd, data_score_z_pd,
      df_con_anomalias_pd, transacciones_marcadas_pd, resumen_anomalias>>

raw_vars ==
    <<data_clientes_pd, data_productos_pd, data_trx_pd, df_final, data_customers_raw_pd,
      data_trx_raw_pd>>

\* main: the dispatch on sys.argv[1]; without argument or with an unknown one a message
\* is printed and main returns
main ==
    /\ pc = "main"
    /\ pc' = IF Len(argv) = 0 THEN "returned"
             ELSE IF argv[1] = "All Pipelines" THEN StageOrder[1]
             ELSE IF \E stage \in Range(StageOrder) : argv[1] = StageArgument[stage]
                  THEN CHOOSE stage \in Range(StageOrder) : argv[1] = StageArgument[stage]
             ELSE "returned"
    /\ UNCHANGED <<parameters, storage, raised, started, returned>>
    /\ UNCHANGED <<argv, anomaly_vars, detector_vars, raw_vars>>

\* 1.1 the three loads of run_pipeline_raw; opening an extract that does not exist raises
RawLoad ==
    /\ pc = "run_pipeline_raw"
    /\ started' = Append(started, "run_pipeline_raw")
    /\ IF storage["data_clientes_input_path"] = None
       THEN Raise("FileNotFoundError")
            /\ UNCHANGED <<data_clientes_pd, data_productos_pd, data_trx_pd>>
       ELSE /\ data_clientes_pd' = <<storage["data_clientes_input_path"][1].content>>
            /\ IF storage["data_producto_input_path"] = None
               THEN Raise("FileNotFoundError") /\ UNCHANGED <<data_productos_pd, data_trx_pd>>
               ELSE /\ data_productos_pd' = <<storage["data_producto_input_path"][1].content>>
                    /\ IF storage["data_trx_input_path"] = None
                       THEN Raise("FileNotFoundError") /\ UNCHANGED data_trx_pd
                       ELSE /\ data_trx_pd' = <<storage["data_trx_input_path"][1].content>>
                            /\ pc' = "raw_loaded"
                            /\ UNCHANGED raised
    /\ UNCHANGED <<parameters, storage, returned, df_final, data_customers_raw_pd,
                   data_trx_raw_pd>>
    /\ UNCHANGED <<argv, anomaly_vars, detector_vars>>

\* 1.2 data_customers_raw_pd, data_trx_raw_pd = PipelineRaw.merge_dataframes_pd(...)
RawMerge ==
    /\ pc = "raw_loaded"
    /\ LET r == merge_dataframes_pd(data_clientes_pd[1], data_productos_pd[1], data_trx_pd[1],
                                    parameters.parameters_raw)
       IN  IF r.raised # ""
           THEN /\ Raise(r.raised)
                /\ UNCHANGED <<df_final, data_customers_raw_pd, data_trx_raw_pd>>
           ELSE /\ df_final' = <<r.ret>>
                /\ IF Unpack2(r.ret).raised # ""
                   THEN /\ Raise(Unpack2(r.ret).raised)
                        /\ UNCHANGED <<data_customers_raw_pd, data_trx_raw_pd>>
                   ELSE /\ data_customers_raw_pd' = <<Unpack2(r.ret).ret[1]>>
                        /\ data_trx_raw_pd' = <<Unpack2(r.ret).ret[2]>>
                        /\ pc' = "raw_merged"
                        /\ UNCHANGED raised
    /\ UNCHANGED <<parameters, storage, started, returned, data_clientes_pd,
                   data_productos_pd, data_trx_pd>>
    /\ UNCHANGED <<argv, anomaly_vars, detector_vars>>

\* df.to_parquet(buffer, index=False) on a value that is no DataFrame
ToParquetRaises(df) == df.type # "DataFrame"

\* 1.3 the two saves of run_pipeline_raw; put_object may fail
RawSave ==
    /\ pc = "raw_merged"
    /\ \E s3_fails \in {0, 1, 2} :
         LET first == [origin |-> "run_pipeline_raw", content |-> data_customers_raw_pd[1]]
             second == [origin |-> "run_pipeline_raw", content |-> data_trx_raw_pd[1]]
             saved1 == save_parquet_to_s3(storage, first, "data_customers_raw_path")
             saved2 == save_parquet_to_s3(saved1, second, "data_trx_raw_path")
         IN  IF ToParquetRaises(first.content)
             THEN Raise("AttributeError") /\ UNCHANGED <<storage, returned>>
             ELSE IF s3_fails = 1
             THEN Raise("ClientError") /\ UNCHANGED <<storage, returned>>
             ELSE IF ToParquetRaises(second.content)
             THEN storage' = saved1 /\ Raise("AttributeError") /\ UNCHANGED returned
             ELSE IF s3_fails = 2
             THEN storage' = saved1 /\ Raise("ClientError") /\ UNCHANGED returned
             ELSE /\ storage' = saved2
                  /\ returned' = Append(returned, "run_pipeline_raw")
                  /\ pc' = AfterStage("run_pipeline_raw")
                  /\ UNCHANGED raised
    /\ UNCHANGED <<parameters, started>>
    /\ UNCHANGED <<argv, anomaly_vars, detector_vars, raw_vars>>

\* a stage after raw, by what it does to storage: it loads its inputs (get_object raises
\* for an absent object), calls its pipeline functions (one may raise), and saves its
\* outputs in order (a save may raise, the earlier outputs staying written)
RunStage(stage) ==
    /\ pc = stage
    /\ started' = Append(started, stage)
    /\ \E fails \in {"nothing", "pipeline function"} \cup Range(StageOutputs(stage)) :
         LET outputs == StageOutputs(stage)
             saved == IF fails \in Range(outputs)
                      THEN (CHOOSE k \in 1..Len(outputs) : outputs[k] = fails) - 1
                      ELSE IF fails = "nothing" THEN Len(outputs) ELSE 0
         IN  IF \E p \in Range(StageInputs(stage)) : storage[p] = None
             THEN Raise("ClientError") /\ UNCHANGED <<storage, returned>>
             ELSE /\ storage' = [p \in CatalogPaths |->
                                   IF \E k \in 1..saved : outputs[k] = p
                                   THEN <<[origin |-> stage, content |-> "parquet"]>>
                                   ELSE storage[p]]
                  /\ IF fails = "nothing"
                     THEN /\ returned' = Append(returned, stage)
                          /\ pc' = AfterStage(stage)
                          /\ UNCHANGED raised
                     ELSE /\ Raise(IF fails = "pipeline function" THEN "KeyError"
                                   ELSE "ClientError")
                          /\ UNCHANGED returned
    /\ UNCHANGED parameters
    /\ UNCHANGED <<argv, anomaly_vars, detector_vars, raw_vars>>

run_pipeline_intermediate == RunStage("run_pipeline_intermediate")

run_pipeline_primary == RunStage("run_pipeline_primary")

run_pipeline_feature_engineering == RunStage("run_pipeline_feature_engineering")

run_pipeline_anomaly_detection == RunStage("run_pipeline_anomaly_detection")

run_pipeline_time_series == RunStage("run_pipeline_time_series")

NextMain ==
    \/ main
    \/ RawLoad
    \/ RawMerge
    \/ RawSave
    \/ run_pipeline_intermediate
    \/ run_pipeline_primary
    \/ run_pipeline_feature_engineering
    \/ run_pipeline_anomaly_detection
    \/ run_pipeline_time_series

SpecMain == InitMain /\ [][NextMain]_vars

----------------------------------------------------------------------------
(* Two runs of detectar_anomalias_pd on the same z-score table: the run of the     *)
(* pipeline (Detect) and a second run in a process of its own (DetectRerun), each   *)
(* with its own copy of the table.                                                  *)

\* the z-score tables the stages before the detector make of a feature table
ZScoreTablesOf(table, params) ==
    LET f == df_filter_pd(table, params)
        z(keeps_index) ==
            calculate_z_scores_pd(f.ret[1], min_max_scaler_pd(f.ret[2]).ret, params, keeps_index)
    IN  IF f.raised # "" THEN {}
        ELSE {z(keeps_index).ret : keeps_index \in {k \in BOOLEAN : z(k).raised = ""}}

InitDetector ==
    /\ pc = "scored"
    /\ parameters \in ParametersPool
    /\ storage = [p \in Paths |-> None]
    /\ data_trx_feature_pd = None
    /\ data_filter_anomalia_pd = None
    /\ data_anomalia_scaled_pd = None
    /\ \E table \in FeatureTables : data_score_z_pd \in ZScoreTablesOf(table, parameters)
    /\ rerun_score_z_pd = data_score_z_pd
    /\ df_con_anomalias_pd = None
    /\ rerun_con_anomalias_pd = None
    /\ transacciones_marcadas_pd = None
    /\ resumen_anomalias = None
    /\ raised = ""
    /\ forest = {}
    /\ MainIdle

\* detectar_anomalias_pd once more, on the second copy of the table
DetectRerun ==
    /\ pc = "detected"
    /\ \E os_entropy \in OsEntropy :
       \E score_of \in Fits(forest, check_random_state(random_state, os_entropy),
                            rerun_score_z_pd) :
         LET r == detectar_anomalias_pd(rerun_score_z_pd, parameters, score_of)
         IN  /\ forest' = Remember(forest, check_random_state(random_state, os_entropy),
                                   rerun_score_z_pd, score_of)
             /\ rerun_score_z_pd' = r.arg
             /\ IF r.raised # ""
                THEN Raise(r.raised) /\ UNCHANGED rerun_con_anomalias_pd
                ELSE /\ rerun_con_anomalias_pd' = r.ret[1]
                     /\ pc' = "redetected"
                     /\ UNCHANGED raised
    /\ UNCHANGED <<parameters, storage, data_trx_feature_pd, data_filter_anomalia_pd,
                   data_anomalia_scaled_pd, data_score_z_pd, df_con_anomalias_pd,
                   transacciones_marcadas_pd, resumen_anomalias>>
    /\ UNCHANGED main_vars

NextDetector ==
    \/ Detect
    \/ DetectRerun

SpecDetector == InitDetector /\ [][NextDetector]_vars

----------------------------------------------------------------------------
(* Properties of calculate_z_scores_pd, read off the state right after it returned: *)
(* its arguments are data_filter_anomalia_pd[1] and data_anomalia_scaled_pd, its    *)
(* result is data_score_z_pd.                                                       *)

ZInputs == ConcatColumns(data_filter_anomalia_pd[1], data_anomalia_scaled_pd)

\* row i has a value in every column of the group key
KeyPresent(df, by, i) == \A k \in 1..Len(by) : df.data[by[k]][i] # NA

\* the rows that share row i's key
SameKey(df, by, i) == {j \in 1..df.n : \A k \in 1..Len(by) : df.data[by[k]][j] = df.data[by[k]][i]}

\* the rows of SameKey that hold a value in column c
Observed(df, by, c, i) == {j \in SameKey(df, by, i) : ~IsNaN(df.data[c][j])}

\* C1: in a group with fewer non-missing values than min_group_size every z-score is 0
C1_SmallGroupIsZero ==
    pc = "scored" =>
        \A c \in Range(data_anomalia_scaled_pd.columns) : \A i \in 1..ZInputs.n :
            (/\ KeyPresent(ZInputs, parameters.groupby_cols, i)
             /\ Cardinality(Observed(ZInputs, parameters.groupby_cols, c, i))
                    < parameters.min_group_size)
            => data_score_z_pd.data[ZScoreName(c)][i] = ZZero

\* a group of fewer than min_group_size rows whose values differ has been scored
C1_Witness ==
    /\ pc = "scored"
    /\ \E c \in Range(data_anomalia_scaled_pd.columns) : \E i, j \in 1..ZInputs.n :
          /\ KeyPresent(ZInputs, parameters.groupby_cols, i)
          /\ j \in Observed(ZInputs, parameters.groupby_cols, c, i)
          /\ i \in Observed(ZInputs, parameters.groupby_cols, c, i)
          /\ ZInputs.data[c][i] # ZInputs.data[c][j]
          /\ Cardinality(SameKey(ZInputs, parameters.groupby_cols, i)) < parameters.min_group_size

\* rational sum and product, for stating the z-score independently of zscore
RAdd(x, y) == Rat(x[1] * y[2] + y[1] * x[2], x[2] * y[2])

RMul(x, y) == Rat(x[1] * y[1], x[2] * y[2])

RECURSIVE RSum(_)
RSum(xs) == IF xs = <<>> THEN Int2Rat(0) ELSE RAdd(Head(xs), RSum(Tail(xs)))

Mean(xs) == RDiv(RSum(xs), Int2Rat(Len(xs)))

\* the sum of the squared deviations from the mean
SquaredDeviations(xs) ==
    RSum([k \in 1..Len(xs) |-> RMul(RSub(xs[k], Mean(xs)), RSub(xs[k], Mean(xs)))])

\* z is (x - mean(xs)) / std(xs), std with divisor len(xs) - 1: z has the sign of
\* x - mean and z^2 * sum of squared deviations = (x - mean)^2 * (len(xs) - 1)
IsSampleZScore(z, x, xs) ==
    LET dev == RSub(x, Mean(xs))
    IN  /\ z.s = Sign(dev[1])
        /\ RMul(<<z.n, z.d>>, SquaredDeviations(xs))
              = RMul(RMul(dev, dev), Int2Rat(Len(xs) - 1))

\* the values of column c observed in row i's group, in row order
ObservedValues(df, by, c, i) == Take(df.data[c], Observed(df, by, c, i))

\* C2 as stated: in every group of at least min_group_size rows and nonzero variance,
\* the z-score of each value is (x - group mean) / group sample standard deviation
C2_RowCountClaim ==
    pc = "scored" =>
        \A c \in Range(data_anomalia_scaled_pd.columns) : \A i \in 1..ZInputs.n :
            (/\ KeyPresent(ZInputs, parameters.groupby_cols, i)
             /\ ~IsNaN(ZInputs.data[c][i])
             /\ Cardinality(SameKey(ZInputs, parameters.groupby_cols, i))
                    >= parameters.min_group_size
             /\ SquaredDeviations(ObservedValues(ZInputs, parameters.groupby_cols, c, i))
                    # Int2Rat(0))
            => IsSampleZScore(data_score_z_pd.data[ZScoreName(c)][i], ZInputs.data[c][i],
                              ObservedValues(ZInputs, parameters.groupby_cols, c, i))

\* C2 amended: in every group with at least min_group_size non-missing values and
\* nonzero variance, the z-score of each non-missing value is
\* (x - mean) / sample standard deviation (ddof = 1) over the group's non-missing values
C2_SampleZScore ==
    pc = "scored" =>
        \A c \in Range(data_anomalia_scaled_pd.columns) : \A i \in 1..ZInputs.n :
            (/\ KeyPresent(ZInputs, parameters.groupby_cols, i)
             /\ ~IsNaN(ZInputs.data[c][i])
             /\ Cardinality(Observed(ZInputs, parameters.groupby_cols, c, i))
                    >= parameters.min_group_size
             /\ SquaredDeviations(ObservedValues(ZInputs, parameters.groupby_cols, c, i))
                    # Int2Rat(0))
            => IsSampleZScore(data_score_z_pd.data[ZScoreName(c)][i], ZInputs.data[c][i],
                              ObservedValues(ZInputs, parameters.groupby_cols, c, i))

\* a group with a missing value, enough non-missing ones and nonzero variance was scored
C2_Witness ==
    /\ pc = "scored"
    /\ \E c \in Range(data_anomalia_scaled_pd.columns) : \E i, j \in 1..ZInputs.n :
          /\ KeyPresent(ZInputs, parameters.groupby_cols, i)
          /\ ~IsNaN(ZInputs.data[c][i])
          /\ j \in SameKey(ZInputs, parameters.groupby_cols, i)
          /\ IsNaN(ZInputs.data[c][j])
          /\ Cardinality(Observed(ZInputs, parameters.groupby_cols, c, i))
                >= parameters.min_group_size
          /\ data_score_z_pd.data[ZScoreName(c)][i] # ZZero

----------------------------------------------------------------------------
(* Properties of detectar_anomalias_pd and procesar_anomalias_pd. *)

\* the rows of df whose CUENTA and MES_ANIO are those of a summary row
RowsOfSummary(df, resumen) ==
    {i \in 1..df.n : /\ df.data[Col("CUENTA")][i] = resumen.CUENTA
                     /\ df.data[Col("MES_ANIO")][i] = resumen.MES_ANIO}

\* C3: in every summary row and for every contamination value, anomalas + no_anomalas
\* is the number of detector-output rows of that (CUENTA, MES_ANIO) group
C3_SummaryCountsAddUp ==
    pc = "processed" =>
        \A k \in 1..Len(resumen_anomalias) : \A c \in Range(parameters.contamination_values) :
            resumen_anomalias[k].counts[c].anomalas + resumen_anomalias[k].counts[c].no_anomalas
                = Cardinality(RowsOfSummary(df_con_anomalias_pd, resumen_anomalias[k]))

\* two groups were summarised, one of them with an anomalous and a normal row
C3_Witness ==
    /\ pc = "processed"
    /\ Len(resumen_anomalias) = 2
    /\ \E k \in 1..Len(resumen_anomalias) : \E c \in Range(parameters.contamination_values) :
          /\ resumen_anomalias[k].counts[c].anomalas > 0
          /\ resumen_anomalias[k].counts[c].no_anomalas > 0

\* C4: after detectar_anomalias_pd every configured anomaly_{c} column exists and holds
\* -1 or 1 in every row, so the two counts add up to the row count
C4_FlagCardinality ==
    pc = "detected" =>
        \A c \in Range(parameters.contamination_values) :
            /\ HasColumn(df_con_anomalias_pd, AnomalyName(c))
            /\ LET flags == df_con_anomalias_pd.data[AnomalyName(c)]
               IN  /\ \A i \in 1..df_con_anomalias_pd.n : flags[i] \in {-1, 1}
                   /\ Cardinality({i \in 1..df_con_anomalias_pd.n : flags[i] = -1})
                        + Cardinality({i \in 1..df_con_anomalias_pd.n : flags[i] = 1})
                        = df_con_anomalias_pd.n

\* two contamination values were run and one of the columns holds both labels
C4_Witness ==
    /\ pc = "detected"
    /\ Len(parameters.contamination_values) = 2
    /\ \E c \in Range(parameters.contamination_values) : \E i, j \in 1..df_con_anomalias_pd.n :
          /\ df_con_anomalias_pd.data[AnomalyName(c)][i] = -1
          /\ df_con_anomalias_pd.data[AnomalyName(c)][j] = 1

\* C8: every z-score is a defined number; a zero-variance group and a row whose input
\* value is missing get 0
C8_NoMissingZScore ==
    pc = "scored" =>
        \A c \in Range(data_anomalia_scaled_pd.columns) : \A i \in 1..ZInputs.n :
            LET z == data_score_z_pd.data[ZScoreName(c)][i]
            IN  /\ ~IsZNaN(z)
                /\ IsNaN(ZInputs.data[c][i]) => z = ZZero
                /\ (/\ KeyPresent(ZInputs, parameters.groupby_cols, i)
                    /\ Cardinality(Range(ObservedValues(ZInputs, parameters.groupby_cols, c, i)))
                          = 1)
                   => z = ZZero

\* a group of equal values, large enough to be scored and with a missing value, was scored
C8_Witness ==
    /\ pc = "scored"
    /\ \E c \in Range(data_anomalia_scaled_pd.columns) : \E i, j \in 1..ZInputs.n :
          /\ KeyPresent(ZInputs, parameters.groupby_cols, i)
          /\ j \in SameKey(ZInputs, parameters.groupby_cols, i)
          /\ IsNaN(ZInputs.data[c][j])
          /\ Cardinality(Observed(ZInputs, parameters.groupby_cols, c, i)) >= 2
          /\ Cardinality(Observed(ZInputs, parameters.groupby_cols, c, i))
                >= parameters.min_group_size
          /\ Cardinality(Range(ObservedValues(ZInputs, parameters.groupby_cols, c, i))) = 1

----------------------------------------------------------------------------
(* Properties of min_max_scaler_pd, read off the state right after it returned: its *)
(* argument is data_filter_anomalia_pd[2], its result is data_anomalia_scaled_pd.    *)

\* a column that holds nothing but 0 and 1
OnlyZeroOne(values) == \A i \in 1..Len(values) : values[i] \in {Int2Rat(0), Int2Rat(1)}

\* C9 as stated: every numeric column that is not a 0/1 indicator and whose max differs
\* from its min comes out as (x - min) / (max - min), inside [0, 1]
C9_MinMaxRange ==
    pc = "scaled" =>
        \A c \in Range(data_filter_anomalia_pd[2].columns) :
            LET before == data_filter_anomalia_pd[2].data[c]
                after == data_anomalia_scaled_pd.data[c]
                min_val == SeriesMin(before)
                max_val == SeriesMax(before)
            IN  (/\ data_filter_anomalia_pd[2].dtypes[c] \in NumberDtypes
                 /\ ~OnlyZeroOne(before)
                 /\ ~IsNaN(min_val)
                 /\ max_val # min_val)
                => \A i \in 1..Len(before) :
                      ~IsNaN(before[i]) =>
                          /\ after[i] = RDiv(RSub(before[i], min_val), RSub(max_val, min_val))
                          /\ RLeq(Int2Rat(0), after[i])
                          /\ RLeq(after[i], Int2Rat(1))

\* C10: a column whose max equals its min is returned with the same values and dtype,
\* and the call raises nothing
C10_ZeroRangeUnchanged ==
    pc = "scaled" =>
        /\ raised = ""
        /\ \A c \in Range(data_filter_anomalia_pd[2].columns) :
              (/\ ~IsNaN(SeriesMin(data_filter_anomalia_pd[2].data[c]))
               /\ SeriesMax(data_filter_anomalia_pd[2].data[c])
                     = SeriesMin(data_filter_anomalia_pd[2].data[c]))
              => /\ data_anomalia_scaled_pd.data[c] = data_filter_anomalia_pd[2].data[c]
                 /\ data_anomalia_scaled_pd.dtypes[c] = data_filter_anomalia_pd[2].dtypes[c]

\* a constant nonzero column of a dtype the scaler handles, on several rows, went through
C10_Witness ==
    /\ pc = "scaled"
    /\ data_filter_anomalia_pd[2].n >= 2
    /\ \E c \in Range(data_filter_anomalia_pd[2].columns) :
          /\ data_filter_anomalia_pd[2].dtypes[c] \in ScalerDtypes
          /\ SeriesMin(data_filter_anomalia_pd[2].data[c]) = Int2Rat(3)
          /\ SeriesMax(data_filter_anomalia_pd[2].data[c]) = Int2Rat(3)

\* C11: a column of the scaler's input that holds only 0 and 1 is a column of the result
\* with the same value in every row
C11_BinaryPassThrough ==
    pc = "scaled" =>
        \A c \in Range(data_filter_anomalia_pd[2].columns) :
            OnlyZeroOne(data_filter_anomalia_pd[2].data[c])
            => /\ HasColumn(data_anomalia_scaled_pd, c)
               /\ data_anomalia_scaled_pd.data[c] = data_filter_anomalia_pd[2].data[c]

\* a column of a dtype the scaler handles, holding both 0 and 1, went through
C11_Witness ==
    /\ pc = "scaled"
    /\ \E c \in Range(data_filter_anomalia_pd[2].columns) :
          /\ data_filter_anomalia_pd[2].dtypes[c] \in ScalerDtypes
          /\ OnlyZeroOne(data_filter_anomalia_pd[2].data[c])
          /\ Range(data_filter_anomalia_pd[2].data[c]) = {Int2Rat(0), Int2Rat(1)}
          /\ IsBinaryColumn(data_filter_anomalia_pd[2].data[c])

----------------------------------------------------------------------------
(* Properties of run_pipeline_anomaly_detection. *)

\* C5 as stated: a finished run has written both output tables, a failed run neither
C5_AtomicRun ==
    /\ pc = "done" => /\ storage["data_info_anomaly_trx_path"] # None
                      /\ storage["sumary_anomaly_trx_path"] # None
    /\ pc = "failed" => /\ storage["data_info_anomaly_trx_path"] = None
                        /\ storage["sumary_anomaly_trx_path"] = None

\* C6 as stated: the tables handed to the components are as they were before the calls:
\* the numerical subset still holds the feature table's MONTO, and the z-score table
\* has got no anomaly_{c} and no MARCA_ANOMALIA column
C6_CallerTablesUnchanged ==
    /\ (/\ pc \in {"scaled", "scored", "detected", "processed"}
        /\ HasColumn(data_filter_anomalia_pd[2], Col("MONTO"))) =>
          data_filter_anomalia_pd[2].data[Col("MONTO")] = data_trx_feature_pd.data[Col("MONTO")]
    /\ pc \in {"detected", "processed"} =>
          \A c \in Range(data_score_z_pd.columns) :
              c[1] # "anomaly_" /\ c # Col("MARCA_ANOMALIA")

\* C7 as stated: every row, a row with a missing key value included, is in exactly one
\* group of the z-score grouping and in exactly one group of the summary grouping
C7_GroupsPartitionRows ==
    /\ pc = "scored" =>
          \A i \in 1..ZInputs.n :
              Cardinality({g \in GroupBy(ZInputs, parameters.groupby_cols) : i \in g}) = 1
    /\ pc = "processed" =>
          \A i \in 1..df_con_anomalias_pd.n :
              Cardinality({g \in GroupBy(df_con_anomalias_pd, SummaryKey) : i \in g}) = 1

----------------------------------------------------------------------------
(* Properties of df_filter_pd, read off the state right after it returned: its    *)
(* argument is data_trx_feature_pd, its result is data_filter_anomalia_pd.         *)

\* C12 as stated: the categorical and the numerical subset share no column and together
\* hold exactly the columns of cols_filter, whatever the columns' dtypes
C12_ColumnPartition ==
    pc = "filtered" =>
        /\ Range(data_filter_anomalia_pd[1].columns) \cap Range(data_filter_anomalia_pd[2].columns)
              = {}
        /\ Range(data_filter_anomalia_pd[1].columns) \cup Range(data_filter_anomalia_pd[2].columns)
              = Range(parameters.cols_filter)

----------------------------------------------------------------------------
(* Properties of procesar_anomalias_pd, read off the state right after it returned: *)
(* its argument is df_con_anomalias_pd, its results are transacciones_marcadas_pd   *)
(* and resumen_anomalias.                                                           *)

\* the flag column of the operative contamination value
OperativeFlags == df_con_anomalias_pd.data[AnomalyName(parameters.contamination_value)]

\* C13: MARCA_ANOMALIA of a row is 'ANOMALO' exactly when the row's flag of the operative
\* contamination value is -1 and 'NO ANOMALO' otherwise, whatever the other flags are
C13_RowLevelFlag ==
    pc = "processed" =>
        \A i \in 1..transacciones_marcadas_pd.n :
            LET marca == transacciones_marcadas_pd.data[Col("MARCA_ANOMALIA")][i]
            IN  /\ marca = "ANOMALO" <=> OperativeFlags[i] = -1
                /\ marca = "NO ANOMALO" <=> OperativeFlags[i] # -1

\* a table was marked in which a row's flag of another contamination value differs from
\* its operative flag, and both marks occur
C13_Witness ==
    /\ pc = "processed"
    /\ \E c \in Range(parameters.contamination_values) : \E i \in 1..df_con_anomalias_pd.n :
          df_con_anomalias_pd.data[AnomalyName(c)][i] # OperativeFlags[i]
    /\ \E i, j \in 1..transacciones_marcadas_pd.n :
          /\ transacciones_marcadas_pd.data[Col("MARCA_ANOMALIA")][i] = "ANOMALO"
          /\ transacciones_marcadas_pd.data[Col("MARCA_ANOMALIA")][j] = "NO ANOMALO"

\* C14: the row-level table has exactly the columns CUENTA, MES_ANIO,
\* PAIS_ORIGEN_DESTINO_TRX, MONTO, MARCA_ANOMALIA, and its i-th row is the i-th input row
C14_RowLevelShape ==
    pc = "processed" =>
        /\ transacciones_marcadas_pd.columns
              = <<Col("CUENTA"), Col("MES_ANIO"), Col("PAIS_ORIGEN_DESTINO_TRX"), Col("MONTO"),
                  Col("MARCA_ANOMALIA")>>
        /\ transacciones_marcadas_pd.n = df_con_anomalias_pd.n
        /\ \A c \in {Col("CUENTA"), Col("MES_ANIO"), Col("PAIS_ORIGEN_DESTINO_TRX"), Col("MONTO")} :
              /\ Len(transacciones_marcadas_pd.data[c]) = df_con_anomalias_pd.n
              /\ \A i \in 1..df_con_anomalias_pd.n :
                    transacciones_marcadas_pd.data[c][i] = df_con_anomalias_pd.data[c][i]

\* a table whose rows differ in account and in amount was reported
C14_Witness ==
    /\ pc = "processed"
    /\ \E i, j \in 1..transacciones_marcadas_pd.n :
          /\ i < j
          /\ transacciones_marcadas_pd.data[Col("CUENTA")][i]
                # transacciones_marcadas_pd.data[Col("CUENTA")][j]
          /\ transacciones_marcadas_pd.data[Col("MONTO")][i]
                # transacciones_marcadas_pd.data[Col("MONTO")][j]

\* summary row a comes before summary row b in ascending (CUENTA, MES_ANIO) order
SummaryBefore(a, b) ==
    \/ Ord(a.CUENTA) < Ord(b.CUENTA)
    \/ a.CUENTA = b.CUENTA /\ Ord(a.MES_ANIO) < Ord(b.MES_ANIO)

----------------------------------------------------------------------------
(* Shape of the table calculate_z_scores_pd returns. *)

\* the signed square s * n / d of the z-score s * sqrt(n / d): it orders as the z-score does
SignedSquare(z) == Rat(z.s * z.n, z.d)

\* C16: the result has the rows of the inputs in their order and holds the categorical
\* columns, the numerical columns and one z_score_<col> per numerical column <col>, in that
\* order; each z-score is on the row of its input value: within a group, the row with the
\* smaller value has the smaller or equal z-score, and equal values have equal z-scores
C16_ZScoreShape ==
    pc = "scored" =>
        LET categorical_df == data_filter_anomalia_pd[1]
            numerical_df == data_anomalia_scaled_pd
            by == parameters.groupby_cols
        IN  /\ data_score_z_pd.n = numerical_df.n
            /\ data_score_z_pd.columns
                  = categorical_df.columns \o numerical_df.columns
                      \o [k \in 1..Len(numerical_df.columns) |->
                              <<"z_score_", numerical_df.columns[k][2]>>]
            /\ \A c \in Range(categorical_df.columns) :
                  data_score_z_pd.data[c] = categorical_df.data[c]
            /\ \A c \in Range(numerical_df.columns) :
                  /\ data_score_z_pd.data[c] = numerical_df.data[c]
                  /\ Len(data_score_z_pd.data[<<"z_score_", c[2]>>]) = numerical_df.n
                  /\ \A i, j \in 1..numerical_df.n :
                        (/\ KeyPresent(ZInputs, by, i)
                         /\ j \in Observed(ZInputs, by, c, i)
                         /\ i \in Observed(ZInputs, by, c, i)
                         /\ RLeq(numerical_df.data[c][i], numerical_df.data[c][j]))
                        => RLeq(SignedSquare(data_score_z_pd.data[<<"z_score_", c[2]>>][i]),
                                SignedSquare(data_score_z_pd.data[<<"z_score_", c[2]>>][j]))

\* a table of two accounts was scored in which a group's greater value stands in an
\* earlier row than its smaller value, with nonzero z-scores
C16_Witness ==
    /\ pc = "scored"
    /\ HasColumn(data_score_z_pd, Col("MONTO"))
    /\ Cardinality(Range(data_score_z_pd.data[Col("CUENTA")])) >= 2
    /\ \E i, j \in 1..data_score_z_pd.n :
          /\ i < j
          /\ j \in Observed(ZInputs, parameters.groupby_cols, Col("MONTO"), i)
          /\ i \in Observed(ZInputs, parameters.groupby_cols, Col("MONTO"), i)
          /\ KeyPresent(ZInputs, parameters.groupby_cols, i)
          /\ ~RLeq(data_score_z_pd.data[Col("MONTO")][i], data_score_z_pd.data[Col("MONTO")][j])
          /\ data_score_z_pd.data[ZScoreName(Col("MONTO"))][i].s = 1
          /\ data_score_z_pd.data[ZScoreName(Col("MONTO"))][j].s = -1

----------------------------------------------------------------------------
(* Determinism of detectar_anomalias_pd, under SpecDetector. *)

\* C17: two runs of the detector on identical tables with the same contamination_values
\* give the same anomaly_{c} column for every c
C17_DetectorDeterminism ==
    pc = "redetected" =>
        \A c \in Range(parameters.contamination_values) :
            rerun_con_anomalias_pd.data[AnomalyName(c)] = df_con_anomalias_pd.data[AnomalyName(c)]

\* both runs ended on a table where one of two contamination values flags some rows and
\* not others
C17_Witness ==
    /\ pc = "redetected"
    /\ Len(parameters.contamination_values) = 2
    /\ \E c \in Range(parameters.contamination_values) :
          Range(rerun_con_anomalias_pd.data[AnomalyName(c)]) = {-1, 1}

----------------------------------------------------------------------------
(* Failures of the components, as steps of the run. *)

----------------------------------------------------------------------------
(* The end-to-end scenario, under SpecScenario. *)

\* the groups of the z-score grouping that have exactly k rows
GroupsOfSize(k) == {g \in GroupBy(ZInputs, parameters.groupby_cols) : Cardinality(g) = k}

\* the scenario's input and parameters: 100 rows, 2 accounts, 2 months, a group of 5 rows
\* and a group of 95 rows, min_group_size 10, contamination values 0.01 and 0.05, 0.05
\* operative
ScenarioInput ==
    /\ data_trx_feature_pd.n = 100
    /\ Cardinality(Range(data_trx_feature_pd.data[Col("CUENTA")])) = 2
    /\ Cardinality(Range(data_trx_feature_pd.data[Col("MES_ANIO")])) = 2
    /\ parameters.min_group_size = 10
    /\ parameters.contamination_values = <<"0.01", "0.05">>
    /\ parameters.contamination_value = "0.05"
    /\ GroupsOfSize(5) # {}
    /\ GroupsOfSize(95) # {}

\* what the scenario promises: z-score 0 on every row of the 5-row group, 4 summary rows,
\* 100 row-level rows each labelled from anomaly_0.05
ScenarioOutput ==
    /\ \A g \in GroupsOfSize(5) : \A i \in g :
          data_score_z_pd.data[<<"z_score_", "MONTO">>][i] = ZZero
    /\ Len(resumen_anomalias) = 4
    /\ transacciones_marcadas_pd.n = 100
    /\ Len(transacciones_marcadas_pd.data[Col("MARCA_ANOMALIA")]) = 100
    /\ \A i \in 1..100 :
          transacciones_marcadas_pd.data[Col("MARCA_ANOMALIA")][i]
            = IF df_con_anomalias_pd.data[<<"anomaly_", "0.05">>][i] = -1
              THEN "ANOMALO" ELSE "NO ANOMALO"

\* every account has a row in every month
AllPairsPresent ==
    \A a \in Range(data_trx_feature_pd.data[Col("CUENTA")]) :
    \A m \in Range(data_trx_feature_pd.data[Col("MES_ANIO")]) :
        \E i \in 1..data_trx_feature_pd.n :
            /\ data_trx_feature_pd.data[Col("CUENTA")][i] = a
            /\ data_trx_feature_pd.data[Col("MES_ANIO")][i] = m

\* C22 as stated: on the scenario's input the 5-row group has z-score 0, the summary has
\* exactly 4 rows and the row-level table has 100 rows labelled from anomaly_0.05
C22_Scenario == (pc = "processed" /\ ScenarioInput) => ScenarioOutput

\* C22 amended: the same, for an input in which each of the 2 accounts has rows in each of
\* the 2 months (the groups of 5 and 95 rows are then the accounts)
C22_ScenarioAllPairs == (pc = "processed" /\ ScenarioInput /\ AllPairsPresent) => ScenarioOutput

\* the scenario was run on an input with all four pairs; the amounts of the 5-row group
\* differ and some row is labelled ANOMALO
C22_Witness ==
    /\ pc = "processed"
    /\ ScenarioInput
    /\ AllPairsPresent
    /\ \E g \in GroupsOfSize(5) :
          Cardinality({data_trx_feature_pd.data[Col("MONTO")][i] : i \in g}) >= 2
    /\ \E i \in 1..100 : transacciones_marcadas_pd.data[Col("MARCA_ANOMALIA")][i] = "ANOMALO"

----------------------------------------------------------------------------
(* Per-contamination independence. *)

\* the detector has returned its frame
Detected == pc \in {"detected", "processed", "saved_transacciones", "done"}

\* the z_score_ columns of a frame, row by row
ZScoreMatrix(df) ==
    LET zcols == SelectSeq(df.columns, LAMBDA c : c[1] = "z_score_")
    IN  [i \in 1..df.n |-> [k \in 1..Len(zcols) |-> df.data[zcols[k]][i]]]

\* C23: anomaly_{c} is the prediction of the forest fitted on the z_score_ columns alone,
\* thresholded at c: nothing else of contamination_values, and no flag column, enters it
C23_FlagDependsOnZScoresAndC ==
    Detected =>
        \E f \in forest :
            /\ f.seed = random_state
            /\ f.X = ZScoreMatrix(df_con_anomalias_pd)
            /\ \A k \in 1..Len(parameters.contamination_values) :
                  LET c == parameters.contamination_values[k]
                  IN  df_con_anomalias_pd.data[AnomalyName(c)]
                        = IsolationForestPredict(
                              [i \in 1..df_con_anomalias_pd.n |-> f.score_of[f.X[i]]], c)

\* two values were configured, the larger first, and their flag columns differ
C23_Witness ==
    /\ pc = "detected"
    /\ parameters.contamination_values = <<"0.5", "0.05">>
    /\ df_con_anomalias_pd.data[AnomalyName("0.5")]
         # df_con_anomalias_pd.data[AnomalyName("0.05")]
    /\ \E i \in 1..df_con_anomalias_pd.n : df_con_anomalias_pd.data[AnomalyName("0.5")][i] = -1

----------------------------------------------------------------------------
(* The two outputs of procesar_anomalias_pd against each other. *)

\* the rows of the row-level table with the key of a summary row and a given label
LabelledRows(resumen, marca) ==
    {i \in RowsOfSummary(transacciones_marcadas_pd, resumen) :
        transacciones_marcadas_pd.data[Col("MARCA_ANOMALIA")][i] = marca}

\* C24: in every summary row the counts of the operative contamination value are the
\* numbers of row-level rows of that CUENTA and MES_ANIO labelled ANOMALO and NO ANOMALO
C24_SummaryAgreesWithLabels ==
    pc = "processed" =>
        \A k \in 1..Len(resumen_anomalias) :
            LET counts == resumen_anomalias[k].counts[parameters.contamination_value]
            IN  /\ counts.anomalas = Cardinality(LabelledRows(resumen_anomalias[k], "ANOMALO"))
                /\ counts.no_anomalas
                     = Cardinality(LabelledRows(resumen_anomalias[k], "NO ANOMALO"))

\* a summary row whose group has rows of both labels, the two counts being different
C24_Witness ==
    /\ pc = "processed"
    /\ \E k \in 1..Len(resumen_anomalias) :
          LET counts == resumen_anomalias[k].counts[parameters.contamination_value]
          IN  /\ counts.anomalas > 0
              /\ counts.no_anomalas > counts.anomalas
              /\ LabelledRows(resumen_anomalias[k], "ANOMALO") # {}

----------------------------------------------------------------------------
(* Rows with a missing summary key. *)

\* the rows of the detector output that have both CUENTA and MES_ANIO
SummaryKeyed == {i \in 1..df_con_anomalias_pd.n : KeyPresent(df_con_anomalias_pd, SummaryKey, i)}

\* C25: every detector-output row, with or without its summary key, is a row of the
\* row-level table; no summary row has a missing key; and for every contamination value
\* the counts of all summary rows add up to the number of rows with both keys present
C25_MissingKeyRows ==
    pc = "processed" =>
        /\ transacciones_marcadas_pd.n = df_con_anomalias_pd.n
        /\ \A i \in 1..df_con_anomalias_pd.n : \A c \in Range(ReportColumns) :
              /\ i <= Len(transacciones_marcadas_pd.data[c])
              /\ transacciones_marcadas_pd.data[c][i] = df_con_anomalias_pd.data[c][i]
        /\ \A k \in 1..Len(resumen_anomalias) :
              resumen_anomalias[k].CUENTA # NA /\ resumen_anomalias[k].MES_ANIO # NA
        /\ \A c \in Range(parameters.contamination_values) :
              SumSeq([k \in 1..Len(resumen_anomalias) |->
                        resumen_anomalias[k].counts[c].anomalas
                          + resumen_anomalias[k].counts[c].no_anomalas])
                = Cardinality(SummaryKeyed)

\* a table with a row without CUENTA, a row without MES_ANIO and a row with both was
\* processed
C25_Witness ==
    /\ pc = "processed"
    /\ \E i \in 1..df_con_anomalias_pd.n : df_con_anomalias_pd.data[Col("CUENTA")][i] = NA
    /\ \E i \in 1..df_con_anomalias_pd.n : df_con_anomalias_pd.data[Col("MES_ANIO")][i] = NA
    /\ SummaryKeyed # {}
    /\ Cardinality(SummaryKeyed) < transacciones_marcadas_pd.n

----------------------------------------------------------------------------
(* Flags across contamination levels. *)

\* c1 < c2 as fractions
ContaminationLess(c1, c2) ==
    ContaminationFraction(c1)[1] * ContaminationFraction(c2)[2]
        < ContaminationFraction(c2)[1] * ContaminationFraction(c1)[2]

\* C26: for configured values c1 < c2 every row flagged -1 in anomaly_{c1} is flagged -1 in
\* anomaly_{c2}, and in every summary row anomaly_{c1}_anomalas <= anomaly_{c2}_anomalas
C26_NestedFlags ==
    \A c1, c2 \in Range(parameters.contamination_values) :
        ContaminationLess(c1, c2) =>
            /\ Detected =>
                  \A i \in 1..df_con_anomalias_pd.n :
                      df_con_anomalias_pd.data[AnomalyName(c1)][i] = -1
                          => df_con_anomalias_pd.data[AnomalyName(c2)][i] = -1
            /\ pc = "processed" =>
                  \A k \in 1..Len(resumen_anomalias) :
                      resumen_anomalias[k].counts[c1].anomalas
                          <= resumen_anomalias[k].counts[c2].anomalas

\* a run with 0.05 and 0.5 in which the lower value flagged a row and counted it in the
\* summary, next to rows it did not flag
C26_Witness ==
    /\ pc = "processed"
    /\ {"0.05", "0.5"} \subseteq Range(parameters.contamination_values)
    /\ \E i, j \in 1..df_con_anomalias_pd.n :
          /\ df_con_anomalias_pd.data[AnomalyName("0.05")][i] = -1
          /\ df_con_anomalias_pd.data[AnomalyName("0.05")][j] = 1
    /\ \E k \in 1..Len(resumen_anomalias) : resumen_anomalias[k].counts["0.05"].anomalas > 0

----------------------------------------------------------------------------
(* The amount in the persisted row-level table. *)

Persisted == pc \in {"saved_transacciones", "done"}

PersistedMonto == storage["data_info_anomaly_trx_path"][1].data[Col("MONTO")]

\* the persisted MONTO column is the MONTO column min_max_scaler_pd returned
C27_PersistedAmountIsScalerOutput ==
    Persisted => PersistedMonto = data_anomalia_scaled_pd.data[Col("MONTO")]

\* C27: the persisted MONTO is the value min_max_scaler_pd produced, and that value is the
\* feature table's MONTO rescaled into [0,1] whenever MONTO is not constant and not a
\* binary indicator
C27_PersistedAmountRescaled ==
    Persisted =>
        LET before == data_trx_feature_pd.data[Col("MONTO")]
            min_val == SeriesMin(before)
            max_val == SeriesMax(before)
        IN  /\ PersistedMonto = data_anomalia_scaled_pd.data[Col("MONTO")]
            /\ (~OnlyZeroOne(before) /\ ~IsNaN(min_val) /\ max_val # min_val)
                  => \A i \in 1..Len(before) :
                        ~IsNaN(before[i]) =>
                            /\ PersistedMonto[i]
                                 = RDiv(RSub(before[i], min_val), RSub(max_val, min_val))
                            /\ RLeq(Int2Rat(0), PersistedMonto[i])
                            /\ RLeq(PersistedMonto[i], Int2Rat(1))

----------------------------------------------------------------------------
(* A group key of numeric type. *)

\* a group key that is in cols_filter and is a numeric column of the feature table, which
\* df_filter_pd put in the numerical subset
NumericGroupKey(c) ==
    /\ c \in Range(parameters.groupby_cols)
    /\ c \in Range(parameters.cols_filter)
    /\ HasColumn(data_trx_feature_pd, c)
    /\ data_trx_feature_pd.dtypes[c] \in NumberDtypes
    /\ HasColumn(data_anomalia_scaled_pd, c)

\* C28: calculate_z_scores_pd called with a group key that is a numeric column of the
\* feature table and of cols_filter fails, and no z-score table is produced
C28_NumericGroupKeyFails ==
    [][(/\ pc = "scaled"
        /\ \E c \in Range(parameters.groupby_cols) : NumericGroupKey(c))
       => /\ pc' = "failed"
          /\ raised' # ""
          /\ data_score_z_pd' = None]_vars

\* calculate_z_scores_pd has failed on subsets with rows, grouped by CUENTA, which the
\* categorical subset has, and by MONTO, which the numerical subset has
C28_Witness ==
    /\ pc = "failed"
    /\ raised = "KeyError"
    /\ parameters.groupby_cols = <<Col("CUENTA"), Col("MONTO")>>
    /\ HasColumn(data_filter_anomalia_pd[1], Col("CUENTA"))
    /\ ~HasColumn(data_filter_anomalia_pd[1], Col("MONTO"))
    /\ NumericGroupKey(Col("MONTO"))
    /\ data_anomalia_scaled_pd.n >= 2
    /\ data_score_z_pd = None

----------------------------------------------------------------------------
(* main and run_pipeline_raw, under SpecMain. *)

IsPrefix(s, t) == Len(s) <= Len(t) /\ \A k \in 1..Len(s) : s[k] = t[k]

\* nothing of this run is at the paths the stage saves to
WroteNothing(stage) ==
    \A p \in Range(StageOutputs(stage)) : storage[p] = None \/ storage[p][1].origin # stage

RawOver == "run_pipeline_raw" \in Range(started) /\ pc \notin {"raw_loaded", "raw_merged"}

\* the object at a path was written by run_pipeline_raw and is a table made of columns of
\* the table merge_dataframes_pd returned
RawTableAt(path) ==
    /\ storage[path] # None
    /\ storage[path][1].origin = "run_pipeline_raw"
    /\ storage[path][1].content.type = "DataFrame"
    /\ Range(storage[path][1].content.columns) \subseteq Range(df_final[1].columns)

\* C30: once the three extracts were loaded and merge_dataframes_pd returned, the stage
\* ends having returned and written the customers raw table and the transactions raw
\* table, both made from the returned value
C30_RawStageCompletes ==
    (RawOver /\ df_final # None) =>
        /\ "run_pipeline_raw" \in Range(returned)
        /\ RawTableAt("data_customers_raw_path")
        /\ RawTableAt("data_trx_raw_path")

\* run_pipeline_raw never returns and never writes
RawStageNeverCompletes ==
    /\ "run_pipeline_raw" \notin Range(returned)
    /\ WroteNothing("run_pipeline_raw")

====
